---------------------------- MODULE Spec2Model ----------------------------
(***************************************************************************)
(* A model of the mindformers front end: the Trainer's train / evaluate /  *)
(* predict lifecycle (mindformers/trainer/trainer.py), the dictionary      *)
(* backed BaseConfig and its yaml save / load (mindformers/models/         *)
(* base_config.py, gpt2/gpt2_config.py), and the dataset pipeline          *)
(* factories (mindformers/dataset/token_classification_dataset.py,         *)
(* transformer/data/build_dataset.py).                                     *)
(*                                                                         *)
(* Python values are modelled as strings: "None" is None, a component of   *)
(* the Trainer is "None", "user" (an object handed to __init__) or "built" *)
(* (an object a build_* call returned); an argument or a config entry is a *)
(* record of its type and its text.  Every handler is one action; the      *)
(* calls it makes are appended, in order, to log.                          *)
(***************************************************************************)
EXTENDS Integers, Sequences, FiniteSets, TLC

VARIABLES
    self,       \* the Trainer's attributes (trainer.py:79-90, 113-118, 176)
    config,     \* self.config, a flat view of the MindFormerConfig entries the Trainer reads or writes
    taskConfig, \* task_config as it stands at trainer.py:127, before the layers are applied
    ckptDirs,   \* the file system: <<output_dir, rank>> -> listing of <output_dir>/rank_<rank>/checkpoint
    netParams,  \* what load_param_into_net has put into self.model
    optParams,  \* what load_param_into_net has put into self.optimizers
    cfg,        \* a BaseConfig object: its class and its dict entries
    files,      \* the file system: yaml path -> document
    loaded,     \* the config the last from_pretrained returned
    attrs,      \* history: the attribute names set on cfg and not deleted since
    saved,      \* history: yaml path -> cfg as it was when save_pretrained was last called for that path
    dataset,    \* the dataset pipeline the last dataset factory returned: the sequence of its stages
    log,        \* the calls made by the last handler, in order
    exc,        \* the exception the last handler raised, "None" when it returned
    call,       \* the last handler and its arguments
    ncalls      \* the number of handlers run so far

vars == <<self, config, taskConfig, ckptDirs, netParams, optParams, cfg, files, loaded,
          attrs, saved, dataset, log, exc, call, ncalls>>

trainerVars == <<self, config, taskConfig, ckptDirs, netParams, optParams>>
configVars == <<cfg, files, loaded, attrs, saved>>
datasetVars == <<dataset>>

-----------------------------------------------------------------------------
(* Bounds of the model. *)

\* handlers run on one Trainer
MaxCalls == 2

-----------------------------------------------------------------------------
(* Generic helpers. *)

NoneV == "None"

EmptyFcn == [k \in {} |-> NoneV]

\* the event a handler appends to log: the call, the path or name it was applied to
\* (a sequence of parts) and, for a checkpoint read, the prefixes filtered out
Ev(op, arg) == [op |-> op, arg |-> arg, filter |-> {}]

Ops(l) == [i \in DOMAIN l |-> l[i].op]

Has(l, op) == \E i \in DOMAIN l : l[i].op = op

Count(l, op) == Cardinality({i \in DOMAIN l : l[i].op = op})

\* every op1 event of l comes before every op2 event of l
Before(l, op1, op2) ==
    \A i, j \in DOMAIN l : (l[i].op = op1 /\ l[j].op = op2) => i < j

\* A Python argument value: its type and, for a str, bool or int, its text as the
\* sequence of its parts (a path is <<stem, extension>>).
PyNone == [type |-> "NoneType", v |-> <<>>]
PyStr(parts) == [type |-> "str", v |-> parts]
PyBool(b) == [type |-> "bool", v |-> <<b>>]
PyInt(n) == [type |-> "int", v |-> <<n>>]
PyObj(cls) == [type |-> cls, v |-> <<>>]

PyTrue == PyBool("True")
PyFalse == PyBool("False")

IsInstance(x, types) == x.type \in types

RECURSIVE Join(_)
Join(parts) == IF parts = <<>> THEN "" ELSE parts[1] \o Join(Tail(parts))

\* a dict with key k set to v
SetKey(d, k, v) == [x \in (DOMAIN d) \cup {k} |-> IF x = k THEN v ELSE d[x]]

\* str.endswith / str.startswith on a string held as the sequence of its parts
EndsWith(s, suffix) == Len(s) > 0 /\ s[Len(s)] = suffix
StartsWith(s, prefix) == Len(s) > 0 /\ s[1] = prefix

-----------------------------------------------------------------------------
(* The Trainer: module constants and the world it runs in. *)

\* SUPPORT_TASKS (trainer.py:57): task name -> the model names it has a default yaml for
SUPPORT_TASKS ==
    [t \in {"general", "image_classification", "translation"} |->
        CASE t = "general" -> {"common"}
          [] t = "image_classification" -> {"common", "vit_base_p16"}
          [] OTHER -> {"common", "t5_small"}]

\* SUPPORT_MODEL_NAMES (trainer.py:58)
SUPPORT_MODEL_NAMES == {"vit_base_p16", "t5_small"}

\* SUPPORT_PIPELINES.keys() (trainer.py:59): the tasks that support predict
SUPPORT_PIPELINES == {"image_classification", "translation"}

\* DEFAULT_CHECKPOINT_DIR (trainer.py:62)
DEFAULT_CHECKPOINT_DIR == "checkpoint"

\* the paths os.path.exists finds, each the sequence of its parts
ExistingPaths ==
    {<<"run", ".yaml">>, <<"run", ".yml">>, <<"run", ".txt">>, <<"data">>, <<"best", ".ckpt">>}

\* every path is found
EveryPathExists(p) == TRUE

\* os.path.exists(p)
PathExists(p) == p \in ExistingPaths

\* the entries of the running config the Trainer reads or writes, by dotted key
CfgKeys ==
    {"trainer.model_name", "model.model_config.checkpoint_name_or_path",
     "runner_config.initial_epoch", "train_dataset.data_loader.dataset_dir",
     "eval_dataset.data_loader.dataset_dir", "train_dataset.tokenizer",
     "eval_dataset.tokenizer", "output_dir", "seed", "aicc_config", "lr_schedule",
     "optimizer.learning_rate"}

\* MindFormerConfig(SUPPORT_TASKS.get(task_name).get(model_name)): the task's default yaml,
\* an empty config when the task has none for the model (MindFormerConfig(None))
DefaultTaskConfig(task_name, model_name) ==
    IF model_name \notin SUPPORT_TASKS[task_name] THEN EmptyFcn ELSE
    [k \in CfgKeys |->
        CASE k = "trainer.model_name" -> model_name
          [] k = "model.model_config.checkpoint_name_or_path" -> model_name
          [] k = "runner_config.initial_epoch" -> "0"
          [] k = "train_dataset.data_loader.dataset_dir" -> "default_train"
          [] k = "eval_dataset.data_loader.dataset_dir" -> "default_eval"
          [] k = "output_dir" -> "./output"
          [] k = "seed" -> "0"
          [] k = "aicc_config" -> "default_aicc"
          [] k = "lr_schedule" -> "default_lr"
          [] OTHER -> NoneV]

\* MindFormerConfig(path): the config a user's yaml file holds
FileConfig(path) ==
    [k \in CfgKeys |->
        CASE k = "trainer.model_name" -> "file_model"
          [] k = "model.model_config.checkpoint_name_or_path" -> "file_ckpt"
          [] k = "runner_config.initial_epoch" -> "0"
          [] k = "train_dataset.data_loader.dataset_dir" -> "file_train"
          [] k = "eval_dataset.data_loader.dataset_dir" -> "file_eval"
          [] k = "output_dir" -> "./file_output"
          [] k = "seed" -> "7"
          [] k = "aicc_config" -> "file_aicc"
          [] k = "optimizer.learning_rate" -> "0.001"
          [] OTHER -> NoneV]

\* MindFormerConfig.merge_from_dict: the options' entries are laid over the config's
MergeFromDict(base, options) ==
    [k \in (DOMAIN base) \cup (DOMAIN options) |->
        IF k \in DOMAIN options THEN options[k] ELSE base[k]]

-----------------------------------------------------------------------------
(* Trainer.__init__ *)

\* what an attribute holds after self.x = x: "None", or the user's object
Held(x) == IF x = PyNone THEN NoneV ELSE "user"

NoTrainer ==
    [exists |-> FALSE, task_name |-> "", model_name |-> "", model |-> NoneV,
     train_dataset |-> NoneV, eval_dataset |-> NoneV, optimizers |-> NoneV,
     wrapper |-> NoneV, tokenizer |-> NoneV, feature_extractor |-> NoneV,
     callbacks |-> NoneV, rank_id |-> "0"]

\* the config argument: None, a dict, a path, a ConfigArguments or anything else
ConfigArg(type, path, entries) == [type |-> type, v |-> path, entries |-> entries]

\* trainer.py:120-126: the task's default config, its trainer.model_name set from a
\* model or wrapper object when the model is not named
TaskConfig(a) ==
    LET model_name == IF a.model.type = "str" THEN Join(a.model.v) ELSE "common"
        c0 == DefaultTaskConfig(Join(a.task_name.v), model_name)
        c1 == IF model_name = "common" /\ a.model # PyNone
              THEN SetKey(c0, "trainer.model_name", "UserModel") ELSE c0
    IN  IF model_name = "common" /\ a.wrapper # PyNone
        THEN SetKey(c1, "trainer.model_name", "WrappedNetwork") ELSE c1

LayeredConfigIgnoresFile(a, task_config) ==
    CASE a.config.type \in {"dict", "str", "ConfigArguments"} ->
            MergeFromDict(task_config, a.config.entries)
      [] OTHER -> task_config

\* trainer.py:128-150: the running config, by the type of the config argument
LayeredConfig(a, task_config) ==
    CASE a.config.type = "dict" -> MergeFromDict(task_config, a.config.entries)
      [] a.config.type = "str" -> FileConfig(a.config.v)
      [] a.config.type = "ConfigArguments" -> MergeFromDict(task_config, a.config.entries)
      [] OTHER -> task_config

InitRaise(e) == [exc |-> e, self |-> NoTrainer, config |-> EmptyFcn, taskConfig |-> EmptyFcn]

\* The whole of __init__: the object it leaves, or the exception it raises.
TrainerInit(a) ==
    LET task_name == Join(a.task_name.v)
        model_name == IF a.model.type = "str" THEN Join(a.model.v) ELSE "common"
        task_config == TaskConfig(a)
        c0 == LayeredConfig(a, task_config)
        trainStr == a.train_dataset.type = "str"
        evalStr == a.eval_dataset.type = "str"
        c1 == IF trainStr
              THEN SetKey(c0, "train_dataset.data_loader.dataset_dir", Join(a.train_dataset.v))
              ELSE c0
        c2 == IF evalStr
              THEN SetKey(c1, "eval_dataset.data_loader.dataset_dir", Join(a.eval_dataset.v))
              ELSE c1
        c3 == IF a.tokenizer # PyNone /\ "train_dataset.data_loader.dataset_dir" \in DOMAIN c2
              THEN SetKey(c2, "train_dataset.tokenizer", "user") ELSE c2
        c4 == IF a.tokenizer # PyNone /\ "eval_dataset.data_loader.dataset_dir" \in DOMAIN c3
              THEN SetKey(c3, "eval_dataset.tokenizer", "user") ELSE c3
        obj == [exists |-> TRUE, task_name |-> task_name, model_name |-> model_name,
                model |-> IF a.model.type = "str" THEN NoneV ELSE Held(a.model),
                train_dataset |-> IF trainStr THEN NoneV ELSE Held(a.train_dataset),
                eval_dataset |-> IF evalStr THEN NoneV ELSE Held(a.eval_dataset),
                optimizers |-> Held(a.optimizers), wrapper |-> Held(a.wrapper),
                tokenizer |-> Held(a.tokenizer),
                feature_extractor |-> Held(a.feature_extractor),
                callbacks |-> Held(a.callbacks), rank_id |-> a.rank_id]
    IN  IF ~(a.task_name.type = "str" /\ task_name \in DOMAIN SUPPORT_TASKS)
            THEN InitRaise("AssertionError")                          \* :110
        ELSE IF a.model.type = "str" /\ model_name \notin SUPPORT_MODEL_NAMES
            THEN InitRaise("AssertionError")                          \* :114
        ELSE IF a.config.type = "str" /\ ~PathExists(a.config.v)
            THEN InitRaise("AssertionError")                          \* :134
        ELSE IF a.config.type = "str" /\ ~(EndsWith(a.config.v, ".yaml") \/ EndsWith(a.config.v, ".yml"))
            THEN InitRaise("AssertionError")                          \* :136
        ELSE IF trainStr /\ ~PathExists(a.train_dataset.v)
            THEN InitRaise("AssertionError")                          \* :158
        ELSE IF trainStr /\ "train_dataset.data_loader.dataset_dir" \notin DOMAIN c0
            THEN InitRaise("AttributeError")                          \* :160
        ELSE IF evalStr /\ ~PathExists(a.eval_dataset.v)
            THEN InitRaise("AssertionError")                          \* :163
        ELSE IF evalStr /\ "eval_dataset.data_loader.dataset_dir" \notin DOMAIN c1
            THEN InitRaise("AttributeError")                          \* :165
        ELSE IF "aicc_config" \notin DOMAIN c4
            THEN InitRaise("TypeError")                               \* :182
        ELSE [exc |-> NoneV, self |-> obj, config |-> c4, taskConfig |-> task_config]

-----------------------------------------------------------------------------
(* The checkpoint files and the framework calls that read them. *)

\* the parameters a checkpoint file holds, each name the sequence of its parts
CkptParams ==
    {<<"backbone", ".weight">>, <<"head", ".bias">>, <<"adam_v", ".backbone.weight">>,
     <<"adam_m", ".backbone.weight">>, <<"epoch_num">>, <<"step_num">>, <<"global_step">>,
     <<"learning_rate">>}

NoParams == [file |-> <<>>, params |-> {}]

\* the machine a handler runs on: the Trainer, its config, the parameters held by the
\* model and the optimizer, the calls made and the exception raised
Machine(s, c, np, op) ==
    [self |-> s, config |-> c, netParams |-> np, optParams |-> op, log |-> <<>>, exc |-> NoneV]

Log(m, e) == [m EXCEPT !.log = Append(@, e)]
Raise(m, e) == [m EXCEPT !.exc = e]
Raised(m) == m.exc # NoneV

\* trainer.py:398-400: <output_dir>/rank_<rank_id>/checkpoint
CheckpointDir(s, c) == <<c["output_dir"], "rank_" \o s.rank_id, DEFAULT_CHECKPOINT_DIR>>

\* trainer.py:401-404
OutputCheckpointPath(listing) == {f \in listing.files : EndsWith(f.name, ".ckpt")}

\* trainer.py:396-409, get_last_checkpoint: what it can return or raise.  sorted() is
\* stable and os.listdir's order is arbitrary, so among files of equal, latest mtime any
\* may come last.
GetLastCheckpoint(dir, listing) ==
    LET ckpts == OutputCheckpointPath(listing)
    IN  IF ~listing.exists THEN {[exc |-> "FileNotFoundError", path |-> PyNone]}
        ELSE IF ckpts = {} THEN {[exc |-> NoneV, path |-> PyNone]}
        ELSE {[exc |-> NoneV, path |-> PyStr(dir \o f.name)] :
                f \in {g \in ckpts : \A h \in ckpts : h.mtime <= g.mtime}}

\* mindspore.load_checkpoint(ckpt_file_name, filter_prefix): the file's parameters without
\* those whose name starts with a filtered prefix; it refuses a name that is no '.ckpt' path
MsLoadCheckpoint(m, path, filter_prefix) ==
    IF path.type # "str" \/ ~EndsWith(path.v, ".ckpt") THEN Raise(m, "FrameworkError")
    ELSE Log(m, [op |-> "load_checkpoint", arg |-> path.v, filter |-> filter_prefix])

ParamDict(path, filter_prefix) ==
    [file |-> path.v,
     params |-> {n \in CkptParams : ~\E pre \in filter_prefix : StartsWith(n, pre)}]

\* mindspore.load_param_into_net(net, parameter_dict): it refuses a net that is no Cell
LoadParamIntoNet(m, target, dict) ==
    IF m.self[target] = NoneV THEN Raise(m, "FrameworkError")
    ELSE Log([m EXCEPT ![IF target = "model" THEN "netParams" ELSE "optParams"] = dict],
             Ev("load_param_into_net", <<target>>))

LoadIntoOptimizerToo(m, path, filter_prefix, is_train) ==
    LET m1 == MsLoadCheckpoint(m, path, filter_prefix)
        dict == ParamDict(path, filter_prefix)
        m2 == IF Raised(m1) THEN m1 ELSE LoadParamIntoNet(m1, "model", dict)
    IN  IF Raised(m2) THEN m2 ELSE LoadParamIntoNet(m2, "optimizers", dict)

\* trainer.py:376-382 and 386-391: read the file, load the network, then the optimizer
LoadInto(m, path, filter_prefix, is_train) ==
    LET m1 == MsLoadCheckpoint(m, path, filter_prefix)
        dict == ParamDict(path, filter_prefix)
        m2 == IF Raised(m1) THEN m1 ELSE LoadParamIntoNet(m1, "model", dict)
    IN  IF Raised(m2) \/ ~is_train THEN m2 ELSE LoadParamIntoNet(m2, "optimizers", dict)

\* trainer.py:372-394, Trainer.load_checkpoint; last is what get_last_checkpoint gives
LoadCheckpoint(m0, model_checkpoint, filter_prefix, is_train, last) ==
    LET m == Log(m0, Ev("self.load_checkpoint", model_checkpoint.v))
    IN  IF model_checkpoint = PyNone THEN m
        ELSE IF model_checkpoint.type = "bool" THEN
            IF last.exc # NoneV THEN Raise(m, last.exc)
            ELSE LoadInto(m, last.path, filter_prefix, is_train)
        ELSE IF model_checkpoint.type = "str" THEN
            IF ~PathExists(model_checkpoint.v) THEN Raise(m, "AssertionError")
            ELSE LoadInto(m, model_checkpoint, filter_prefix, is_train)
        ELSE Raise(m, "KeyError")

-----------------------------------------------------------------------------
(* Trainer.train, Trainer.evaluate, Trainer.predict *)

CkptKey == "model.model_config.checkpoint_name_or_path"

\* self.<field> = build_*(...): the builder returns an object
BuildComponent(m, field, op) == Log([m EXCEPT !.self[field] = "built"], Ev(op, <<field>>))

\* trainer.py:208-214
TrainBuildModel(m, resume) ==
    IF m.self.model = NoneV /\ m.self.wrapper = NoneV THEN
        LET name == IF resume.type = "str" /\ Join(resume.v) \in SUPPORT_MODEL_NAMES
                    THEN Join(resume.v) ELSE NoneV
            c == IF resume = PyTrue \/ resume.type = "str"
                 THEN SetKey(m.config, CkptKey, name) ELSE m.config
        IN  BuildComponent([m EXCEPT !.config = c], "model", "build_model")
    ELSE m

\* the model built whether or not one is held
InferRebuildsModel(m, checkpoint) ==
    LET c == IF checkpoint = PyTrue \/ checkpoint.type = "str"
             THEN SetKey(m.config, CkptKey, NoneV) ELSE m.config
    IN  BuildComponent([m EXCEPT !.config = c], "model", "build_model")

\* trainer.py:245-248 and 277-280
InferBuildModel(m, checkpoint) ==
    IF m.self.model = NoneV THEN
        LET c == IF checkpoint = PyTrue \/ checkpoint.type = "str"
                 THEN SetKey(m.config, CkptKey, NoneV) ELSE m.config
        IN  BuildComponent([m EXCEPT !.config = c], "model", "build_model")
    ELSE m

\* trainer.py:298-314, create_optimizer_and_scheduler: build_lr gives no schedule when
\* none is configured, and then the optimizer's own learning_rate must be set
CreateOptimizerAndScheduler(m) ==
    LET m1 == Log(m, Ev("build_lr", <<>>))
    IN  IF m.self.model = NoneV THEN Raise(m1, "AttributeError")
        ELSE IF m.config["lr_schedule"] = NoneV /\ m.config["optimizer.learning_rate"] = NoneV
            THEN Raise(m1, "AssertionError")
        ELSE BuildComponent(m1, "optimizers", "build_optim")

\* trainer.py:316-322, create_train_one_step_wrapper
CreateTrainOneStepWrapper(m) ==
    IF m.self.model # NoneV /\ m.self.optimizers # NoneV
    THEN BuildComponent(m, "wrapper", "build_wrapper")
    ELSE m

\* trainer.py:253 and 288
FilterPrefix == {"adam_v", "adam_m", "epoch_num", "step_num", "global_step"}

\* build_trainer(self.config.trainer) and the task trainer's method
Delegate(m, method) == Log(Log(m, Ev("build_trainer", <<>>)), Ev(method, <<>>))

\* trainer.py:198-223: the datasets, the model, the optimizer, the wrapper, the callbacks
TrainBuild(m0, resume, do_eval) ==
    LET m1 == IF m0.self.train_dataset = NoneV
              THEN BuildComponent(m0, "train_dataset", "build_dataset") ELSE m0
        m2 == IF do_eval /\ m1.self.eval_dataset = NoneV
              THEN BuildComponent(m1, "eval_dataset", "build_dataset") ELSE m1
        m3 == TrainBuildModel(m2, resume)
        m4 == IF m3.self.optimizers = NoneV /\ m3.self.wrapper = NoneV
              THEN CreateOptimizerAndScheduler(m3) ELSE m3
        m5 == IF ~Raised(m4) /\ m4.self.wrapper = NoneV
              THEN CreateTrainOneStepWrapper(m4) ELSE m4
    IN  IF ~Raised(m5) /\ m5.self.callbacks = NoneV
        THEN BuildComponent(m5, "callbacks", "build_callback") ELSE m5

\* trainer.py:226-227
SetInitialEpoch(m, initial_epoch) ==
    IF initial_epoch # 0
    THEN [m EXCEPT !.config = SetKey(@, "runner_config.initial_epoch", ToString(initial_epoch))]
    ELSE m

TrainDelegatesBeforeLoad(m0, resume_from_checkpoint, initial_epoch, do_eval, last) ==
    LET resume == IF resume_from_checkpoint = PyFalse THEN PyNone ELSE resume_from_checkpoint
        m6 == TrainBuild(m0, resume, do_eval)
        m7 == IF Raised(m6) THEN m6
              ELSE Delegate(SetInitialEpoch(m6, initial_epoch), "trainer.train")
    IN  IF Raised(m7) THEN m7 ELSE LoadCheckpoint(m7, resume, {}, TRUE, last)

\* trainer.py:195-235, Trainer.train
Train(m0, resume_from_checkpoint, initial_epoch, do_eval, last) ==
    LET resume == IF resume_from_checkpoint = PyFalse THEN PyNone ELSE resume_from_checkpoint
        m6 == TrainBuild(m0, resume, do_eval)
        m7 == IF Raised(m6) THEN m6 ELSE LoadCheckpoint(m6, resume, {}, TRUE, last)
    IN  IF Raised(m7) THEN m7
        ELSE Delegate(SetInitialEpoch(m7, initial_epoch), "trainer.train")

\* trainer.py:237-259, Trainer.evaluate
Evaluate(m0, eval_checkpoint, last) ==
    LET checkpoint == IF eval_checkpoint = PyFalse THEN PyNone ELSE eval_checkpoint
        m1 == IF m0.self.eval_dataset = NoneV
              THEN BuildComponent(m0, "eval_dataset", "build_dataset") ELSE m0
        m2 == InferBuildModel(m1, checkpoint)
        m3 == IF m2.self.callbacks = NoneV
              THEN BuildComponent(m2, "callbacks", "build_callback") ELSE m2
        m4 == LoadCheckpoint(m3, checkpoint, FilterPrefix, FALSE, last)
    IN  IF Raised(m4) THEN m4 ELSE Delegate(m4, "trainer.evaluate")

\* the types trainer.py:274 accepts as input data
InputDataTypes == {"Tensor", "ndarray", "Image", "str", "list"}

\* trainer.py:269-296
PredictBody(m0, predict_checkpoint, input_data, last) ==
    LET checkpoint == IF predict_checkpoint = PyFalse THEN PyNone ELSE predict_checkpoint
        m1 == IF input_data = PyNone THEN Log(m0, Ev("load_image", <<m0.self.task_name>>)) ELSE m0
        data == IF input_data = PyNone THEN PyObj("Image") ELSE input_data
        m2 == InferBuildModel(m1, checkpoint)
        m3 == IF m2.self.tokenizer = NoneV
              THEN BuildComponent(m2, "tokenizer", "build_tokenizer") ELSE m2
        m4 == IF m3.self.feature_extractor = NoneV
              THEN BuildComponent(m3, "feature_extractor", "build_feature_extractor") ELSE m3
        m5 == LoadCheckpoint(m4, checkpoint, FilterPrefix, FALSE, last)
    IN  IF ~IsInstance(data, InputDataTypes) THEN Raise(m1, "AssertionError")
        ELSE IF Raised(m5) THEN m5
        ELSE Delegate(m5, "trainer.predict")

PredictChecksTaskLast(m0, predict_checkpoint, input_data, last) ==
    LET m == PredictBody(m0, predict_checkpoint, input_data, last)
    IN  IF m0.self.task_name \notin SUPPORT_PIPELINES /\ ~Raised(m)
        THEN Raise(m, "NotImplementedError") ELSE m

\* trainer.py:261-296, Trainer.predict
Predict(m0, predict_checkpoint, input_data, last) ==
    IF m0.self.task_name \notin SUPPORT_PIPELINES THEN Raise(m0, "NotImplementedError")
    ELSE PredictBody(m0, predict_checkpoint, input_data, last)

-----------------------------------------------------------------------------
(* The worlds and arguments the Trainer is run in. *)

File(stem, ext, mtime) == [name |-> <<stem, ext>>, mtime |-> mtime]

MissingDir == [exists |-> FALSE, files |-> {}]
Dir(fs) == [exists |-> TRUE, files |-> fs]

\* what <output_dir>/rank_<rank_id>/checkpoint may hold when a handler runs
DirListings ==
    {MissingDir,
     Dir({}),
     Dir({File("notes", ".txt", 5)}),
     Dir({File("a", ".ckpt", 1), File("b", ".ckpt", 2), File("notes", ".txt", 3)}),
     Dir({File("a", ".ckpt", 2), File("b", ".ckpt", 1)}),
     Dir({File("a", ".ckpt", 2), File("b", ".ckpt", 2)})}

MainDir == <<"./output", "rank_0", DEFAULT_CHECKPOINT_DIR>>

DirWorld(listing) ==
    [d \in {"./output", "./file_output"} \X {"rank_0", "rank_1"} \X {DEFAULT_CHECKPOINT_DIR, "ckpt"} |->
        IF d = MainDir THEN listing
        ELSE IF d[3] # DEFAULT_CHECKPOINT_DIR THEN Dir({File("stale", ".ckpt", 9)})
        ELSE IF d[2] = "rank_1" THEN Dir({File("r1", ".ckpt", 1)})
        ELSE Dir({File("f0", ".ckpt", 1)})]

Listing(dir) == IF dir \in DOMAIN ckptDirs THEN ckptDirs[dir] ELSE MissingDir

NoConfigArg == ConfigArg("NoneType", <<>>, EmptyFcn)

\* the arguments of a checkpoint parameter: None, a bool, a path that exists, one that
\* does not, a supported model name, and a value that is neither str nor bool
CheckpointArgs ==
    {PyNone, PyFalse, PyTrue, PyStr(<<"best", ".ckpt">>), PyStr(<<"no", ".ckpt">>),
     PyStr(<<"vit_base_p16">>), PyInt("1")}

InitialEpochs == {0, 1}

InputDataArgs == {PyNone, PyObj("Tensor"), PyInt("5")}

Objects(cls) == {PyNone, PyObj(cls)}

NoCall == [op |-> "", args |-> EmptyFcn]

\* no config object: a config is its class, its dict entries and the name
\* MindFormerBook has registered for it
NoConfig == [cls |-> "", d |-> EmptyFcn, name |-> NoneV]

\* the other subsystems at rest
ConfigIdle ==
    /\ cfg = NoConfig /\ files = EmptyFcn /\ loaded = NoConfig
    /\ attrs = {} /\ saved = EmptyFcn
DatasetIdle == dataset = <<>>
TrainerIdle ==
    /\ self = NoTrainer /\ config = EmptyFcn /\ taskConfig = EmptyFcn
    /\ ckptDirs = EmptyFcn /\ netParams = NoParams /\ optParams = NoParams

\* a Trainer that __init__ built from arguments a, in some world
Constructed(args) ==
    /\ \E a \in args :
        LET r == TrainerInit(a)
        IN  /\ r.exc = NoneV
            /\ self = r.self /\ config = r.config /\ taskConfig = r.taskConfig
    /\ \E listing \in DirListings :
        /\ CheckpointDir(self, config) # MainDir => listing = MissingDir
        /\ ckptDirs = DirWorld(listing)
    /\ netParams = NoParams /\ optParams = NoParams
    /\ ConfigIdle /\ DatasetIdle
    /\ log = <<>> /\ exc = NoneV /\ call = NoCall /\ ncalls = 0

\* a handler's effects become the state
Commit(m, c) ==
    /\ self' = m.self /\ config' = m.config
    /\ netParams' = m.netParams /\ optParams' = m.optParams
    /\ log' = m.log /\ exc' = m.exc
    /\ call' = c /\ ncalls' = ncalls + 1
    /\ UNCHANGED <<taskConfig, ckptDirs, configVars, dataset>>

LastCheckpoints == GetLastCheckpoint(CheckpointDir(self, config), Listing(CheckpointDir(self, config)))

TrainCall ==
    /\ self.exists /\ ncalls < MaxCalls
    /\ \E resume \in CheckpointArgs, initial_epoch \in InitialEpochs, do_eval \in BOOLEAN :
       \E last \in LastCheckpoints :
          Commit(Train(Machine(self, config, netParams, optParams),
                       resume, initial_epoch, do_eval, last),
                 [op |-> "train",
                  args |-> [checkpoint |-> resume, initial_epoch |-> initial_epoch,
                            do_eval |-> do_eval]])

EvaluateCall ==
    /\ self.exists /\ ncalls < MaxCalls
    /\ \E eval_checkpoint \in CheckpointArgs :
       \E last \in LastCheckpoints :
          Commit(Evaluate(Machine(self, config, netParams, optParams), eval_checkpoint, last),
                 [op |-> "evaluate", args |-> [checkpoint |-> eval_checkpoint]])

PredictCall ==
    /\ self.exists /\ ncalls < MaxCalls
    /\ \E predict_checkpoint \in CheckpointArgs, input_data \in InputDataArgs :
       \E last \in LastCheckpoints :
          Commit(Predict(Machine(self, config, netParams, optParams),
                         predict_checkpoint, input_data, last),
                 [op |-> "predict",
                  args |-> [checkpoint |-> predict_checkpoint, input_data |-> input_data]])

\* Trainers built for training: every combination of user-supplied model, datasets,
\* optimizer, wrapper and callbacks, with and without a learning-rate schedule
TrainArgs ==
    [config : {NoConfigArg, ConfigArg("dict", <<>>, [k \in {"lr_schedule"} |-> NoneV])},
     task_name : {PyStr(<<"image_classification">>)},
     model : Objects("BaseModel"),
     train_dataset : Objects("BaseDataset"), eval_dataset : Objects("BaseDataset"),
     tokenizer : {PyNone}, feature_extractor : {PyNone},
     optimizers : Objects("Optimizer"), wrapper : Objects("TrainOneStepCell"),
     callbacks : Objects("Callback"), rank_id : {"0", "1"}]

TrainInit == Constructed(TrainArgs)
TrainNext == TrainCall
SpecTrain == TrainInit /\ [][TrainNext]_vars

\* Trainers built for inference: every combination of user-supplied model, evaluation
\* dataset, tokenizer, feature extractor, optimizer and callbacks (evaluate and predict
\* never read self.wrapper or self.train_dataset)
InferArgs ==
    [config : {NoConfigArg},
     task_name : {PyStr(<<"general">>), PyStr(<<"image_classification">>)},
     model : Objects("BaseModel"),
     train_dataset : {PyNone}, eval_dataset : Objects("BaseDataset"),
     tokenizer : Objects("BaseTokenizer"), feature_extractor : Objects("BaseFeatureExtractor"),
     optimizers : Objects("Optimizer"), wrapper : {PyNone},
     callbacks : Objects("Callback"), rank_id : {"0", "1"}]

InferInit == Constructed(InferArgs)
InferNext == EvaluateCall \/ PredictCall
SpecInfer == InferInit /\ [][InferNext]_vars

-----------------------------------------------------------------------------
(* Claims about the Trainer's lifecycle. *)

\* a handler has just run
Ran(ops) == call'.op \in ops /\ ncalls' = ncalls + 1

\* the place of a call in Trainer.train (trainer.py:201-235)
TrainStep(e) ==
    CASE e.op = "build_dataset" /\ e.arg = <<"train_dataset">> -> 1
      [] e.op = "build_dataset" /\ e.arg = <<"eval_dataset">> -> 2
      [] e.op = "build_model" -> 3
      [] e.op = "build_lr" -> 4
      [] e.op = "build_optim" -> 5
      [] e.op = "build_wrapper" -> 6
      [] e.op = "build_callback" -> 7
      [] e.op = "self.load_checkpoint" -> 8
      [] e.op = "load_checkpoint" -> 9
      [] e.op = "load_param_into_net" /\ e.arg = <<"model">> -> 10
      [] e.op = "load_param_into_net" /\ e.arg = <<"optimizers">> -> 11
      [] e.op = "build_trainer" -> 12
      [] e.op = "trainer.train" -> 13
      [] OTHER -> 0

InTrainOrder(l) ==
    /\ \A i \in DOMAIN l : TrainStep(l[i]) > 0
    /\ \A i, j \in DOMAIN l : i < j => TrainStep(l[i]) < TrainStep(l[j])

\* C1 as stated: after every call of train the steps taken are in the order train
\* dataset, eval dataset, model, optimizer/scheduler, wrapper, callbacks, checkpoint
\* load, delegation, and the delegation has happened exactly once.
C1_DelegatesExactlyOnce ==
    call.op = "train" => InTrainOrder(log) /\ Count(log, "trainer.train") = 1

\* C1 as amended: in every call of train the steps taken are in that order, the train
\* dataset is built exactly when none is held, the eval dataset exactly when do_eval and
\* none is held, the delegation never comes before the checkpoint load, and the
\* delegation happens once in a call that returns and not at all in a call that raises.
C1_TrainOrder ==
    [][Ran({"train"}) =>
        /\ InTrainOrder(log')
        /\ Has(log', "build_dataset") /\ log'[1].arg = <<"train_dataset">>
              <=> self.train_dataset = NoneV
        /\ (\E i \in DOMAIN log' : TrainStep(log'[i]) = 2)
              <=> (call'.args.do_eval /\ self.eval_dataset = NoneV)
        /\ Has(log', "trainer.train") => Has(log', "self.load_checkpoint")
        /\ Count(log', "trainer.train") = (IF exc' = NoneV THEN 1 ELSE 0)]_vars

\* a call of train that takes every step and returns
C1_Witness ==
    /\ call.op = "train" /\ exc = NoneV
    /\ Len(log) = 13
    /\ \A n \in 1..13 : TrainStep(log[n]) = n

\* the '.ckpt' files of the Trainer's checkpoint directory with the latest mtime
LatestCheckpoints ==
    LET fs == {f \in Listing(CheckpointDir(self, config)).files : f.name[Len(f.name)] = ".ckpt"}
    IN  {CheckpointDir(self, config) \o f.name : f \in {g \in fs : \A h \in fs : h.mtime <= g.mtime}}

\* C4 as stated: a call train(resume_from_checkpoint=True) that reaches the checkpoint
\* load, with a '.ckpt' file in <output_dir>/rank_<RANK_ID>/checkpoint, loads the latest
\* such file into the model and into the optimizer and then delegates; and
\* get_last_checkpoint gives None exactly when the directory holds no '.ckpt' file.
C4_ResumeLoadsLatest ==
    /\ (/\ call.op = "train" /\ call.args.checkpoint = PyTrue
        /\ Has(log, "self.load_checkpoint") /\ LatestCheckpoints # {})
       => /\ netParams.file \in LatestCheckpoints
          /\ optParams.file = netParams.file
          /\ \E i \in DOMAIN log : log[i].op = "load_checkpoint" /\ log[i].arg = netParams.file
          /\ Count(log, "load_param_into_net") = 2
          /\ Has(log, "trainer.train")
          /\ Before(log, "load_param_into_net", "trainer.train")
    /\ \A d \in DOMAIN ckptDirs :
          ckptDirs[d].exists =>
             \A r \in GetLastCheckpoint(d, ckptDirs[d]) :
                r.path = PyNone <=> ~\E f \in ckptDirs[d].files : f.name[Len(f.name)] = ".ckpt"

\* C4, where it holds: the same, for a Trainer that holds a model and an optimizer when
\* the checkpoint is loaded.
C4_ResumeLoadsLatestIntoHeld ==
    (/\ call.op = "train" /\ call.args.checkpoint = PyTrue
     /\ Has(log, "self.load_checkpoint") /\ LatestCheckpoints # {}
     /\ self.model # NoneV /\ self.optimizers # NoneV)
    => /\ netParams.file \in LatestCheckpoints
       /\ optParams.file = netParams.file
       /\ Count(log, "load_param_into_net") = 2
       /\ Has(log, "trainer.train")
       /\ Before(log, "load_param_into_net", "trainer.train")

\* C7: in evaluate and predict the checkpoint load comes after the model is built and
\* before the delegation; it loads the network only, with the prefixes adam_v, adam_m,
\* epoch_num, step_num, global_step filtered out; and neither call builds an optimizer
\* or a wrapper, or puts parameters into the optimizer.
C7_InferenceLoadsNetworkOnly ==
    [][Ran({"evaluate", "predict"}) =>
        LET delegate == "trainer." \o call'.op
            prefixes == {"adam_v", "adam_m", "epoch_num", "step_num", "global_step"}
        IN  /\ optParams' = optParams
            /\ self'.optimizers = self.optimizers /\ self'.wrapper = self.wrapper
            /\ ~Has(log', "build_optim") /\ ~Has(log', "build_lr") /\ ~Has(log', "build_wrapper")
            /\ \A i \in DOMAIN log' :
                  /\ log'[i].op = "load_param_into_net" => log'[i].arg = <<"model">>
                  /\ log'[i].op = "load_checkpoint" => log'[i].filter = prefixes
            /\ Has(log', "load_param_into_net") =>
                  /\ netParams'.params # {}
                  /\ \A n \in netParams'.params : n[1] \notin prefixes
            /\ Before(log', "build_model", "self.load_checkpoint")
            /\ Has(log', "self.load_checkpoint") => self'.model # NoneV
            /\ Before(log', "self.load_checkpoint", delegate)
            /\ Before(log', "load_param_into_net", delegate)
            /\ Has(log', delegate) => Has(log', "self.load_checkpoint")]_vars

\* an evaluate that builds the model, loads a checkpoint into it and delegates, on a
\* Trainer that holds an optimizer
C7_Witness ==
    /\ call.op = "evaluate" /\ exc = NoneV
    /\ Has(log, "build_model") /\ Has(log, "load_param_into_net") /\ Has(log, "trainer.evaluate")
    /\ netParams # NoParams /\ optParams = NoParams /\ self.optimizers = "user"

\* C10: predict on a task that is not among the supported pipeline tasks raises
\* NotImplementedError and does nothing else: nothing is built, no checkpoint is loaded,
\* the config is unchanged and the task trainer is not invoked.
C10_UnsupportedPredictDoesNothing ==
    [][(Ran({"predict"}) /\ self.task_name \notin {"image_classification", "translation"}) =>
        /\ exc' = "NotImplementedError"
        /\ log' = <<>>
        /\ self' = self /\ config' = config
        /\ netParams' = netParams /\ optParams' = optParams]_vars

\* a predict with a checkpoint and input data on a Trainer of the 'general' task, which
\* holds no model, tokenizer or feature extractor
C10_Witness ==
    /\ call.op = "predict" /\ exc = "NotImplementedError"
    /\ self.task_name = "general" /\ call.args.checkpoint = PyTrue
    /\ self.model = NoneV /\ self.tokenizer = NoneV /\ self.feature_extractor = NoneV

-----------------------------------------------------------------------------
(* Constructing a Trainer. *)

DictArg(entries) == ConfigArg("dict", <<>>, entries)

\* the config arguments tried: none, dicts, yaml paths (good, wrong extension, missing),
\* a ConfigArguments, and a value of another type
ConfigArgs ==
    {NoConfigArg,
     DictArg([k \in {"seed"} |-> "1"]),
     DictArg([k \in {"output_dir", "extra"} |-> IF k = "extra" THEN "x" ELSE "./mine"]),
     ConfigArg("str", <<"run", ".yaml">>, EmptyFcn),
     ConfigArg("str", <<"run", ".yml">>, EmptyFcn),
     ConfigArg("str", <<"run", ".txt">>, EmptyFcn),
     ConfigArg("str", <<"no", ".yaml">>, EmptyFcn),
     ConfigArg("ConfigArguments", <<>>, [k \in {"seed", "batch_size"} |-> "3"]),
     ConfigArg("int", <<"5">>, EmptyFcn)}

InitArgs ==
    [config : ConfigArgs,
     task_name : {PyStr(<<"general">>), PyStr(<<"image_classification">>),
                  PyStr(<<"translation">>), PyStr(<<"no_such_task">>), PyNone},
     model : {PyNone, PyObj("BaseModel"), PyStr(<<"vit_base_p16">>), PyStr(<<"t5_small">>),
              PyStr(<<"no_such_model">>)},
     train_dataset : {PyNone, PyObj("BaseDataset"), PyStr(<<"data">>), PyStr(<<"no">>)},
     eval_dataset : {PyNone, PyObj("BaseDataset"), PyStr(<<"data">>), PyStr(<<"no">>)},
     tokenizer : Objects("BaseTokenizer"), feature_extractor : {PyNone},
     optimizers : {PyNone}, wrapper : Objects("TrainOneStepCell"),
     callbacks : {PyNone}, rank_id : {"0", "1"}]

NothingRun ==
    /\ TrainerIdle /\ ConfigIdle /\ DatasetIdle
    /\ log = <<>> /\ exc = NoneV /\ call = NoCall /\ ncalls = 0

\* Trainer(**a)
InitCall ==
    /\ ncalls = 0
    /\ \E a \in InitArgs :
        LET r == TrainerInit(a)
        IN  /\ self' = r.self /\ config' = r.config /\ taskConfig' = r.taskConfig
            /\ exc' = r.exc /\ log' = <<>>
            /\ call' = [op |-> "__init__", args |-> a] /\ ncalls' = 1
            /\ UNCHANGED <<ckptDirs, netParams, optParams, configVars, dataset>>

SpecInit == NothingRun /\ [][InitCall]_vars

\* the entries trainer.py:157-172 write after the layers are applied
WrittenAfterLayers(a) ==
    (IF a.train_dataset.type = "str" THEN {"train_dataset.data_loader.dataset_dir"} ELSE {})
    \cup (IF a.eval_dataset.type = "str" THEN {"eval_dataset.data_loader.dataset_dir"} ELSE {})
    \cup (IF a.tokenizer # PyNone THEN {"train_dataset.tokenizer", "eval_dataset.tokenizer"} ELSE {})

-----------------------------------------------------------------------------
(* BaseConfig (mindformers/models/base_config.py): values and attribute access. *)

\* A value a config holds: its Python type t and its text v; a nested config has its
\* class as t and its entries (key -> value) as sub
Leaf(t, v) == [t |-> t, v |-> v, sub |-> EmptyFcn]

None == Leaf("NoneType", "None")

ConfigClasses == {"BaseConfig", "GPT2Config"}

Nested(cls, entries) == [t |-> cls, v |-> "", sub |-> entries]

\* isinstance(val, BaseConfig)
IsBaseConfig(val) == val.t \in ConfigClasses

\* isinstance(val, (str, int, float, bool))
IsScalar(val) == val.t \in {"str", "int", "float", "bool"}

\* dict.pop(key) on the entries d
Pop(d, key) == [k \in (DOMAIN d) \ {key} |-> d[k]]

\* names the class itself defines: the methods of dict and of BaseConfig, and
\* _support_list; normal attribute lookup finds these before __getattr__ is tried
ClassAttributes ==
    {"items", "keys", "update", "pop",
     "to_dict", "from_pretrained", "save_pretrained", "remove_type",
     "_support_list"}

\* BaseConfig(**kwargs)
BaseConfigInit(kwargs) == [cls |-> "BaseConfig", d |-> kwargs, name |-> NoneV]

\* cfg[key]
GetItem(c, key) ==
    IF key \in DOMAIN c.d THEN [exc |-> NoneV, val |-> c.d[key]]
    ELSE [exc |-> "KeyError", val |-> None]

\* cfg.key: the class attribute if the class defines one, else __getattr__
GetAttr(c, key) ==
    IF key \in ClassAttributes THEN Leaf("attribute", key)
    ELSE IF key \notin DOMAIN c.d THEN None
    ELSE c.d[key]

\* cfg.key = value
SetAttr(c, key, value) == [c EXCEPT !.d = SetKey(c.d, key, value)]

\* del cfg.key leaving the entry in place
DelAttrKeeps(c, key) ==
    IF key \in DOMAIN c.d THEN [exc |-> NoneV, cfg |-> c]
    ELSE [exc |-> "KeyError", cfg |-> c]

\* del cfg.key
DelAttr(c, key) ==
    IF key \in DOMAIN c.d THEN [exc |-> NoneV, cfg |-> [c EXCEPT !.d = Pop(c.d, key)]]
    ELSE [exc |-> "KeyError", cfg |-> c]

-----------------------------------------------------------------------------
(* GPT2Config (mindformers/models/gpt2/gpt2_config.py). *)

\* convert_mstype: a dtype is kept, the name of a dtype becomes that dtype, and
\* anything else is a KeyError
ConvertMstype(val) ==
    IF val.t = "dtype" THEN [exc |-> NoneV, val |-> val]
    ELSE IF val.t = "str" /\ val.v \in {"float16", "float32"}
         THEN [exc |-> NoneV, val |-> Leaf("dtype", val.v)]
    ELSE [exc |-> "KeyError", val |-> None]

\* the defaults of GPT2Config.__init__
GPT2Defaults ==
    [dropout_prob |-> Leaf("float", "0.1"),
     batch_size |-> None,
     seq_length |-> Leaf("int", "1024"),
     vocab_size |-> Leaf("int", "50257"),
     embedding_size |-> Leaf("int", "768"),
     num_layers |-> Leaf("int", "12"),
     num_heads |-> Leaf("int", "12"),
     expand_ratio |-> Leaf("int", "4"),
     hidden_dropout_prob |-> Leaf("float", "0.1"),
     attention_probs_dropout_prob |-> Leaf("float", "0.1"),
     initializer_range |-> Leaf("float", "0.02"),
     eos_token |-> Leaf("int", "50256"),
     param_init_type |-> Leaf("str", "float32"),
     layernorm_dtype |-> Leaf("str", "float32"),
     softmax_dtype |-> Leaf("str", "float32"),
     compute_dtype |-> Leaf("str", "float16"),
     hidden_act |-> Leaf("str", "gelu"),
     parallel_config |-> Leaf("TransformerOpParallelConfig", "default_transformer_config"),
     checkpoint_name_or_path |-> Leaf("str", ""),
     moe_config |-> Leaf("MoEConfig", "default_moe_config")]

\* the parameters GPT2Config.__init__ passes through convert_mstype
MstypeParams == {"param_init_type", "layernorm_dtype", "softmax_dtype", "compute_dtype"}

\* GPT2Config(**kwargs): the named parameters take their argument or their default,
\* the remaining kwargs go to BaseConfig.__init__
GPT2ConfigInit(kwargs) ==
    LET arg(k) == IF k \in DOMAIN kwargs THEN kwargs[k] ELSE GPT2Defaults[k]
        bad == {k \in MstypeParams : ConvertMstype(arg(k)).exc # NoneV}
        d == [k \in (DOMAIN kwargs) \cup (DOMAIN GPT2Defaults) |->
                IF k \in MstypeParams THEN ConvertMstype(arg(k)).val ELSE arg(k)]
    IN  IF bad # {} THEN [exc |-> "KeyError", cfg |-> NoConfig]
        ELSE [exc |-> NoneV, cfg |-> [cls |-> "GPT2Config", d |-> d, name |-> NoneV]]

-----------------------------------------------------------------------------
(* Attribute access on one config: sets and deletes. *)

\* the attribute names set and deleted
AttrNames == {"seq_length", "batch_size", "items", "to_dict"}

\* the values set
AttrValues == {Leaf("int", "2048"), Leaf("str", "2048"), None}

\* a fresh BaseConfig() or GPT2Config(), nothing else running
AttrInit ==
    /\ cfg \in {BaseConfigInit(EmptyFcn), GPT2ConfigInit(EmptyFcn).cfg}
    /\ attrs = DOMAIN cfg.d
    /\ files = EmptyFcn /\ loaded = NoConfig /\ saved = EmptyFcn
    /\ TrainerIdle /\ DatasetIdle
    /\ log = <<>> /\ exc = NoneV /\ call = NoCall /\ ncalls = 0

\* cfg.key = value
SetAttrCall ==
    /\ ncalls < MaxCalls
    /\ \E key \in AttrNames, value \in AttrValues :
        /\ cfg' = SetAttr(cfg, key, value)
        /\ attrs' = attrs \cup {key}
        /\ exc' = NoneV
        /\ call' = [op |-> "__setattr__", args |-> [key |-> key, value |-> value]]
    /\ log' = <<>> /\ ncalls' = ncalls + 1
    /\ UNCHANGED <<trainerVars, files, loaded, saved, dataset>>

\* del cfg.key
DelAttrCall ==
    /\ ncalls < MaxCalls
    /\ \E key \in AttrNames :
        LET r == DelAttr(cfg, key)
        IN  /\ cfg' = r.cfg
            /\ attrs' = attrs \ {key}
            /\ exc' = r.exc
            /\ call' = [op |-> "__delattr__", args |-> [key |-> key]]
    /\ log' = <<>> /\ ncalls' = ncalls + 1
    /\ UNCHANGED <<trainerVars, files, loaded, saved, dataset>>

AttrNext == SetAttrCall \/ DelAttrCall

SpecAttr == AttrInit /\ [][AttrNext]_vars

\* C3 (as stated): attribute access and dictionary access always agree: after
\* cfg.k = v both cfg.k and cfg['k'] return v, after del cfg.k the name k is not a
\* key, and the keys are exactly the attributes set and not deleted.
C3_AttributeAccessAgrees ==
    /\ call.op = "__setattr__" =>
        /\ GetAttr(cfg, call.args.key) = call.args.value
        /\ GetItem(cfg, call.args.key) = [exc |-> NoneV, val |-> call.args.value]
    /\ call.op = "__delattr__" => call.args.key \notin DOMAIN cfg.d
    /\ DOMAIN cfg.d = attrs

\* C3: for a name k the class does not itself define, after cfg.k = v both cfg.k
\* and cfg['k'] return v; for a name the class defines (a dict or BaseConfig
\* method, _support_list) cfg['k'] returns v while cfg.k returns the class
\* attribute.  After del cfg.k the name k is not a key, and for every name the
\* keys are exactly the attributes set and not deleted.
C3_AttributeAccessAgreesOffClass ==
    /\ call.op = "__setattr__" =>
        /\ GetItem(cfg, call.args.key) = [exc |-> NoneV, val |-> call.args.value]
        /\ call.args.key \notin ClassAttributes =>
                GetAttr(cfg, call.args.key) = call.args.value
        /\ call.args.key \in ClassAttributes =>
                GetAttr(cfg, call.args.key) = Leaf("attribute", call.args.key)
    /\ call.op = "__delattr__" => call.args.key \notin DOMAIN cfg.d
    /\ \A k \in (DOMAIN cfg.d) \ ClassAttributes : GetAttr(cfg, k) = cfg.d[k]
    /\ DOMAIN cfg.d = attrs

\* an attribute was set after an earlier one was deleted, and reads back
C3_Witness ==
    /\ call.op = "__setattr__" /\ call.args.key = "seq_length"
    /\ call.args.value = Leaf("str", "2048")
    /\ GetAttr(cfg, "seq_length") = Leaf("str", "2048")
    /\ "batch_size" \notin DOMAIN cfg.d /\ "batch_size" \in DOMAIN GPT2Defaults
    /\ cfg.cls = "GPT2Config"

-----------------------------------------------------------------------------
(* yaml.dump / yaml.load on the values a config holds.  A scalar is written as *)
(* its text, plain or quoted, and read back by what the text looks like.       *)

IntTexts == {"4", "12", "768", "1024", "2048", "50256", "50257"}
FloatTexts == {"0.1", "0.02"}
BoolTexts == {"true", "false"}
NullTexts == {"null", "~", ""}

\* the type the yaml resolver gives a plain (unquoted) scalar
ResolvePlain(text) ==
    IF text \in IntTexts THEN "int"
    ELSE IF text \in FloatTexts THEN "float"
    ELSE IF text \in BoolTexts THEN "bool"
    ELSE IF text \in NullTexts THEN "NoneType"
    ELSE "str"

Node(style, text) == [style |-> style, text |-> text, sub |-> EmptyFcn]

NullNode == Node("plain", "null")

\* yaml.dump: a str is quoted when its plain text would read back as another type,
\* a bool is written in lower case, None as null, a dict as a mapping, and any
\* other object under a tag naming its type (the tag is held as the style)
RECURSIVE YamlDump(_)
YamlDump(val) ==
    IF val.t = "dict"
    THEN [style |-> "map", text |-> "", sub |-> [k \in DOMAIN val.sub |-> YamlDump(val.sub[k])]]
    ELSE IF val.t = "str"
    THEN Node(IF ResolvePlain(val.v) = "str" THEN "plain" ELSE "quoted", val.v)
    ELSE IF val.t \in {"int", "float"} THEN Node("plain", val.v)
    ELSE IF val.t = "bool" THEN Node("plain", IF val.v = "True" THEN "true" ELSE "false")
    ELSE IF val.t = "NoneType" THEN NullNode
    ELSE Node(val.t, val.v)

\* yaml.load with yaml.Loader
RECURSIVE YamlLoad(_)
YamlLoad(node) ==
    IF node.style = "map"
    THEN [t |-> "dict", v |-> "", sub |-> [k \in DOMAIN node.sub |-> YamlLoad(node.sub[k])]]
    ELSE IF node.style = "quoted" THEN Leaf("str", node.text)
    ELSE IF node.style = "plain"
    THEN LET t == ResolvePlain(node.text)
         IN  IF t = "bool" THEN Leaf("bool", IF node.text = "true" THEN "True" ELSE "False")
             ELSE IF t = "NoneType" THEN None
             ELSE Leaf(t, node.text)
    ELSE Leaf(node.style, node.text)

-----------------------------------------------------------------------------
(* BaseConfig.save_pretrained and its helpers. *)

\* an entry of the file system: a directory, or a file with its top-level yaml
\* keys and, under the key model, the model_config mapping and the arch type
DirEntry == [kind |-> "dir", keys |-> {}, model_config |-> NullNode, arch |-> NullNode]
YamlFile(keys, model_config, arch) ==
    [kind |-> "file", keys |-> keys, model_config |-> model_config, arch |-> arch]

\* MindFormerBook.get_default_checkpoint_save_folder()
DefaultSaveFolder == <<"checkpoint_save">>

\* to_dict: the entries as a plain dict, nested configs included
RECURSIVE ToDict(_)
ToDict(d) ==
    [k \in DOMAIN d |->
        IF IsBaseConfig(d[k]) THEN [t |-> "dict", v |-> "", sub |-> ToDict(d[k].sub)]
        ELSE d[k]]

\* _inverse_parse_config on the entries d of a config of class cls: type is set to
\* the class name, nested configs are parsed in turn, and every entry that is
\* neither a config nor a str, int, float or bool is removed
RECURSIVE InverseParseConfig(_, _)
InverseParseConfig(cls, d) ==
    LET typed == SetKey(d, "type", Leaf("str", cls))
        removed_list == {k \in DOMAIN typed : ~IsBaseConfig(typed[k]) /\ ~IsScalar(typed[k])}
    IN  [k \in (DOMAIN typed) \ removed_list |->
            IF IsBaseConfig(typed[k])
            THEN [typed[k] EXCEPT !.sub = InverseParseConfig(typed[k].t, typed[k].sub)]
            ELSE typed[k]]

\* _wrap_config on a config c already parsed: model_name is popped from the config
\* and, when it is None, looked up in MindFormerBook; the wrapped content is the
\* config as a dict and the model name
WrapConfig(c) ==
    LET popped == IF "model_name" \in DOMAIN c.d THEN c.d["model_name"] ELSE None
        registered == IF c.name = NoneV THEN None ELSE Leaf("str", c.name)
        model_name == IF popped = None THEN registered ELSE popped
        d == Pop(c.d, "model_name")
    IN  [cfg |-> [c EXCEPT !.d = d],
         model_config |-> [t |-> "dict", v |-> "", sub |-> ToDict(d)],
         arch |-> model_name]

\* remove_type on the entries of a config saved just before: type is popped from
\* the config and from its directly nested configs
RemoveType(d) ==
    [k \in (DOMAIN d) \ {"type"} |->
        IF IsBaseConfig(d[k]) THEN [d[k] EXCEPT !.sub = Pop(d[k].sub, "type")] ELSE d[k]]

\* cfg.save_pretrained(save_directory, save_name) in the file system fs
SavePretrained(c, fs, save_directory, save_name) ==
    LET directory == IF save_directory = PyNone THEN PyStr(DefaultSaveFolder) ELSE save_directory
    IN  IF ~IsInstance(directory, {"str"}) \/ ~IsInstance(save_name, {"str"})
        THEN [exc |-> "TypeError", cfg |-> c, files |-> fs, path |-> <<>>]
        ELSE
        LET made == IF directory.v \in DOMAIN fs THEN fs ELSE SetKey(fs, directory.v, DirEntry)
            save_path == directory.v \o save_name.v \o <<".yaml">>
            parsed == [c EXCEPT !.d = InverseParseConfig(c.cls, c.d)]
            wraped == WrapConfig(parsed)
            untyped == [wraped.cfg EXCEPT !.d = RemoveType(wraped.cfg.d)]
            meraged_keys == (IF save_path \in DOMAIN made THEN made[save_path].keys ELSE {})
                                \cup {"model"}
            written == YamlFile(meraged_keys, YamlDump(wraped.model_config), YamlDump(wraped.arch))
        IN  [exc |-> NoneV, cfg |-> untyped, files |-> SetKey(made, save_path, written),
             path |-> save_path]

-----------------------------------------------------------------------------
(* BaseConfig.from_pretrained. *)

\* cls._support_list: empty for BaseConfig, the gpt2 names for GPT2Config
SupportList(cls) ==
    IF cls = "GPT2Config" THEN {<<"gpt2">>, <<"gpt2", "_13b">>} ELSE {}

\* MindFormerBook.get_default_checkpoint_download_folder() and get_project_path()
DefaultDownloadFolder == <<"checkpoint_download">>
ProjectPath == <<"mindformers">>

\* name.split('_')[0] of a name held as its parts, split at each '_'
SplitFirst(name) == name[1]

\* the cached yaml and the default yaml of a supported name
CachedYaml(name) == DefaultDownloadFolder \o <<SplitFirst(name)>> \o name \o <<".yaml">>
DefaultYaml(name) ==
    ProjectPath \o <<"configs", SplitFirst(name), "model_config">> \o name \o <<".yaml">>

\* a mapping read from yaml that names a config class becomes a config of that class
RebuildNested(val) ==
    IF val.t = "dict" /\ "type" \in DOMAIN val.sub /\ val.sub["type"].v \in ConfigClasses
    THEN Nested(val.sub["type"].v, Pop(val.sub, "type"))
    ELSE val

\* MindFormerConfig(yaml_file).model.model_config handed to build_model_config: the
\* class named by type is instantiated with the remaining entries as kwargs
BuildModelConfig(file) ==
    IF "model" \notin file.keys THEN [exc |-> "AttributeError", cfg |-> NoConfig]
    ELSE
    LET d == YamlLoad(file.model_config).sub
    IN  IF "type" \notin DOMAIN d THEN [exc |-> "KeyError", cfg |-> NoConfig]
        ELSE
        LET kwargs == [k \in (DOMAIN d) \ {"type"} |-> RebuildNested(d[k])]
        IN  IF d["type"] = Leaf("str", "GPT2Config") THEN GPT2ConfigInit(kwargs)
            ELSE IF d["type"] = Leaf("str", "BaseConfig")
            THEN [exc |-> NoneV, cfg |-> BaseConfigInit(kwargs)]
            ELSE [exc |-> "ValueError", cfg |-> NoConfig]

\* every path passes for a yaml file
AnyPathIsYaml(path) == TRUE

\* yaml_name_or_path.endswith(".yaml")
IsYamlPath(path) == EndsWith(path, ".yaml")

\* from_pretrained up to the yaml file it settles on (base_config.py:99-133): the
\* argument checks, the download folder it makes and the default yaml it copies
ResolveYaml(cls, fs, yaml_name_or_path) ==
    LET name == yaml_name_or_path.v
        stop(e, f) == [exc |-> e, files |-> f, yaml_file |-> <<>>]
    IN  IF ~IsInstance(yaml_name_or_path, {"str"}) THEN stop("TypeError", fs)
        ELSE IF name \in DOMAIN fs
        THEN IF ~IsYamlPath(name) THEN stop("ValueError", fs)
             ELSE [exc |-> NoneV, files |-> fs, yaml_file |-> name]
        ELSE IF name \notin SupportList(cls) THEN stop("ValueError", fs)
        ELSE
        LET checkpoint_path == DefaultDownloadFolder \o <<SplitFirst(name)>>
            made == IF checkpoint_path \in DOMAIN fs THEN fs
                    ELSE SetKey(fs, checkpoint_path, DirEntry)
            yaml_file == CachedYaml(name)
        IN  IF yaml_file \in DOMAIN made
            THEN [exc |-> NoneV, files |-> made, yaml_file |-> yaml_file]
            ELSE IF DefaultYaml(name) \in DOMAIN made
            THEN [exc |-> NoneV, files |-> SetKey(made, yaml_file, made[DefaultYaml(name)]),
                  yaml_file |-> yaml_file]
            ELSE stop("FileNotFoundError", made)

\* cls.from_pretrained(yaml_name_or_path) in the file system fs: the config built
\* from the yaml, registered in MindFormerBook under the arch type of the yaml
FromPretrained(cls, fs, yaml_name_or_path) ==
    LET y == ResolveYaml(cls, fs, yaml_name_or_path)
    IN  IF y.exc # NoneV THEN [exc |-> y.exc, cfg |-> NoConfig, files |-> y.files]
        ELSE
        LET built == BuildModelConfig(y.files[y.yaml_file])
            arch == YamlLoad(y.files[y.yaml_file].arch)
        IN  IF built.exc # NoneV THEN [exc |-> built.exc, cfg |-> NoConfig, files |-> y.files]
            ELSE [exc |-> NoneV,
                  cfg |-> [built.cfg EXCEPT !.name = IF arch = None THEN NoneV ELSE arch.v],
                  files |-> y.files]

-----------------------------------------------------------------------------
(* Saving and loading configs: the configs, the file system and the calls. *)

\* entries a BaseConfig is constructed with: scalars of each type, a str that
\* yaml must quote, and optionally a None, a model_name, a type and a nested config
ScalarEntries ==
    [seq_length |-> Leaf("int", "1024"), dropout_prob |-> Leaf("float", "0.1"),
     use_past |-> Leaf("bool", "True"), hidden_act |-> Leaf("str", "gelu"),
     vocab |-> Leaf("str", "1024")]

OptionalEntries ==
    [batch_size |-> None, model_name |-> Leaf("str", "my_model"),
     type |-> Leaf("str", "custom"),
     text_config |-> Nested("BaseConfig",
                            [hidden_size |-> Leaf("int", "768"),
                             layers |-> Leaf("list", "[1, 2]")])]

WithEntries(d, more, keys) ==
    [k \in (DOMAIN d) \cup keys |-> IF k \in keys THEN more[k] ELSE d[k]]

BaseConfigs ==
    {BaseConfigInit(EmptyFcn)} \cup
    {BaseConfigInit(WithEntries(ScalarEntries, OptionalEntries, keys)) :
        keys \in SUBSET DOMAIN OptionalEntries}

\* GPT2Config(), and GPT2Config with one argument away from its default
GPT2Kwargs ==
    {EmptyFcn,
     [compute_dtype |-> Leaf("str", "float32")],
     [batch_size |-> Leaf("int", "4")],
     [model_name |-> Leaf("str", "gpt2")]}

GPT2Configs == {GPT2ConfigInit(kwargs).cfg : kwargs \in GPT2Kwargs}

\* the yaml the project ships for a gpt2 model
ShippedYaml(name) ==
    YamlFile({"model", "processor"},
             YamlDump([t |-> "dict", v |-> "",
                       sub |-> [type |-> Leaf("str", "GPT2Config"),
                                seq_length |-> Leaf("int", "1024"),
                                checkpoint_name_or_path |-> Leaf("str", Join(name))]]),
             YamlDump(Leaf("str", Join(name))))

\* what exists whatever is installed: a directory, a file that is not .yaml, and
\* a .yaml file without a model section
PlainFiles ==
    [p \in {<<"my_configs">>, <<"notes", ".yml">>, <<"run", ".yaml">>} |->
        IF p = <<"my_configs">> THEN DirEntry
        ELSE YamlFile({"runner"}, NullNode, NullNode)]

\* the file systems: nothing shipped or cached, or the default yaml of gpt2
\* shipped and the yaml of gpt2_13b already cached
FileSystems ==
    {PlainFiles,
     SetKey(SetKey(SetKey(PlainFiles,
            DefaultYaml(<<"gpt2">>), ShippedYaml(<<"gpt2">>)),
            DefaultDownloadFolder \o <<"gpt2">>, DirEntry),
            CachedYaml(<<"gpt2", "_13b">>), ShippedYaml(<<"gpt2", "_13b">>))}

SaveArgs ==
    {[save_directory |-> PyNone, save_name |-> PyStr(<<"m">>)],
     [save_directory |-> PyStr(<<"out">>), save_name |-> PyStr(<<"m">>)],
     [save_directory |-> PyInt("1"), save_name |-> PyStr(<<"m">>)],
     [save_directory |-> PyStr(<<"out">>), save_name |-> PyNone]}

YamlNameOrPaths ==
    {PyInt("1"), PyNone,
     PyStr(<<"my_configs">>), PyStr(<<"notes", ".yml">>), PyStr(<<"run", ".yaml">>),
     PyStr(<<"out", "m", ".yaml">>), PyStr(DefaultSaveFolder \o <<"m", ".yaml">>),
     PyStr(<<"gpt2">>), PyStr(<<"gpt2", "_13b">>), PyStr(<<"bert">>)}

\* a config just constructed, in some file system
ConfigInit ==
    /\ cfg \in BaseConfigs \cup GPT2Configs
    /\ files \in FileSystems
    /\ loaded = NoConfig /\ attrs = DOMAIN cfg.d /\ saved = EmptyFcn
    /\ TrainerIdle /\ DatasetIdle
    /\ log = <<>> /\ exc = NoneV /\ call = NoCall /\ ncalls = 0

\* cfg.save_pretrained(save_directory, save_name)
SavePretrainedCall ==
    /\ ncalls < MaxCalls
    /\ \E a \in SaveArgs :
        LET r == SavePretrained(cfg, files, a.save_directory, a.save_name)
        IN  /\ cfg' = r.cfg /\ files' = r.files /\ exc' = r.exc
            /\ saved' = IF r.exc = NoneV THEN SetKey(saved, r.path, cfg) ELSE saved
            /\ call' = [op |-> "save_pretrained", args |-> a]
    /\ log' = <<>> /\ ncalls' = ncalls + 1
    /\ UNCHANGED <<trainerVars, loaded, attrs, dataset>>

\* cls.from_pretrained(yaml_name_or_path)
FromPretrainedCall ==
    /\ ncalls < MaxCalls
    /\ \E cls \in ConfigClasses, yaml_name_or_path \in YamlNameOrPaths :
        LET r == FromPretrained(cls, files, yaml_name_or_path)
        IN  /\ loaded' = r.cfg /\ files' = r.files /\ exc' = r.exc
            /\ call' = [op |-> "from_pretrained",
                        args |-> [cls |-> cls, yaml_name_or_path |-> yaml_name_or_path,
                                  files |-> files]]
    /\ log' = <<>> /\ ncalls' = ncalls + 1
    /\ UNCHANGED <<trainerVars, cfg, attrs, saved, dataset>>

ConfigNext == SavePretrainedCall \/ FromPretrainedCall

SpecConfig == ConfigInit /\ [][ConfigNext]_vars

\* the config as it was when the yaml the last from_pretrained read was saved
Original == saved[call.args.yaml_name_or_path.v]

\* from_pretrained has just read a yaml that save_pretrained wrote
ReadBack ==
    /\ call.op = "from_pretrained"
    /\ call.args.yaml_name_or_path.type = "str"
    /\ call.args.yaml_name_or_path.v \in DOMAIN saved

\* C2 (as stated): save_pretrained(dir, name) followed by
\* from_pretrained(dir/name.yaml) yields a config holding the same keys and values
\* as the original config held before it was saved.
C2_YamlRoundTrip ==
    ReadBack =>
        /\ exc = NoneV
        /\ loaded.cls = Original.cls
        /\ loaded.d = Original.d

\* C2, what does hold: the read succeeds and gives a config of the same class in
\* which every str, int, float or bool entry of the original other than type and
\* model_name has its value; a default GPT2Config comes back whole.
C2_ScalarEntriesRoundTrip ==
    ReadBack =>
        /\ exc = NoneV
        /\ loaded.cls = Original.cls
        /\ \A k \in (DOMAIN Original.d) \ {"type", "model_name"} :
              IsScalar(Original.d[k]) => k \in DOMAIN loaded.d /\ loaded.d[k] = Original.d[k]
        /\ Original = GPT2ConfigInit(EmptyFcn).cfg => loaded.d = Original.d

\* a default GPT2Config read back whole
C2_DefaultRoundTrips ==
    ReadBack /\ Original = GPT2ConfigInit(EmptyFcn).cfg /\ loaded.d = Original.d

\* C8: from_pretrained reports each bad input as an error and builds no config: a
\* non-str argument raises TypeError; an existing path that does not end in
\* '.yaml' raises ValueError; a string that is neither an existing path nor in
\* the class's _support_list raises ValueError; a supported name whose default
\* yaml is missing, and which is not cached, raises FileNotFoundError.
C8_BadInputRaises ==
    call.op = "from_pretrained" =>
        LET arg == call.args.yaml_name_or_path
            fs == call.args.files
            isPath == arg.v \in DOMAIN fs
            supported == arg.v \in SupportList(call.args.cls)
        IN  /\ arg.type # "str" => exc = "TypeError" /\ loaded = NoConfig
            /\ (arg.type = "str" /\ isPath /\ ~EndsWith(arg.v, ".yaml")) =>
                    exc = "ValueError" /\ loaded = NoConfig
            /\ (arg.type = "str" /\ ~isPath /\ ~supported) =>
                    exc = "ValueError" /\ loaded = NoConfig
            /\ (arg.type = "str" /\ ~isPath /\ supported
                    /\ CachedYaml(arg.v) \notin DOMAIN fs
                    /\ DefaultYaml(arg.v) \notin DOMAIN fs) =>
                    exc = "FileNotFoundError" /\ loaded = NoConfig

\* each of the four errors has been raised by some call: here the existing path
\* that is not a .yaml file
C8_Witness ==
    /\ call.op = "from_pretrained"
    /\ call.args.yaml_name_or_path = PyStr(<<"notes", ".yml">>)
    /\ exc = "ValueError" /\ loaded = NoConfig

\* a supported name with neither a cached nor a default yaml
C8_MissingDefaultYaml ==
    /\ call.op = "from_pretrained"
    /\ call.args.cls = "GPT2Config"
    /\ call.args.yaml_name_or_path = PyStr(<<"gpt2">>)
    /\ exc = "FileNotFoundError" /\ loaded = NoConfig
    /\ DefaultDownloadFolder \o <<"gpt2">> \in DOMAIN files

-----------------------------------------------------------------------------
(* The dataset factories: TokenClassificationDataset.__new__                  *)
(* (mindformers/dataset/token_classification_dataset.py) and build_dataset    *)
(* (transformer/data/build_dataset.py).  A dataset is the sequence of the     *)
(* stages applied to it, the loader first.                                    *)

\* int(os.getenv(name, default)) for the values the launcher exports
ParseInt(text) == IF text = "0" THEN 0 ELSE IF text = "1" THEN 1 ELSE 2

Getenv(env, name, default) == IF name \in DOMAIN env THEN env[name] ELSE default

\* one stage of a dataset: the operation, what it was given, and for a map the
\* columns it works on
MapStage(operations, columns) == [op |-> "map", arg |-> operations, columns |-> columns]
Stage(op, arg) == [op |-> op, arg |-> arg, columns |-> <<>>]

\* build_transforms, build_sampler: nothing configured builds nothing
BuildFrom(module_config) == module_config

\* dataset.repeat(...) and then dataset.batch(...)
RepeatThenBatch(ds, dataset_config) ==
    ds \o <<Stage("repeat", ToString(dataset_config.repeat)),
            Stage("batch", ToString(dataset_config.batch_size))>>

\* dataset.batch(...) and then dataset.repeat(...)
BatchThenRepeat(ds, dataset_config) ==
    ds \o <<Stage("batch", ToString(dataset_config.batch_size)),
            Stage("repeat", ToString(dataset_config.repeat))>>

\* TokenClassificationDataset(dataset_config) under the environment env: the calls
\* it makes and the dataset it returns
TokenClassificationDatasetNew(dataset_config, env) ==
    LET rank_id == ParseInt(Getenv(env, "RANK_ID", "0"))
        device_num == ParseInt(Getenv(env, "RANK_SIZE", "1"))
        loader == <<Stage("build_dataset_loader",
                          dataset_config.data_loader \o " num_shards=" \o ToString(device_num)
                              \o " shard_id=" \o ToString(rank_id))>>
        text_transforms == BuildFrom(dataset_config.text_transforms)
        label_transforms == BuildFrom(dataset_config.label_transforms)
        sampler == BuildFrom(dataset_config.sampler)
        built == <<Ev("build_dataset_loader", <<dataset_config.data_loader>>),
                   Ev("build_tokenizer", <<dataset_config.tokenizer>>),
                   Ev("build_transforms", <<dataset_config.text_transforms>>),
                   Ev("build_transforms", <<dataset_config.label_transforms>>),
                   Ev("build_sampler", <<dataset_config.sampler>>)>>
        sampled == IF sampler # NoneV THEN loader \o <<Stage("use_sampler", sampler)>> ELSE loader
        text_mapped ==
            IF text_transforms # NoneV
            THEN sampled \o <<MapStage(text_transforms, dataset_config.input_columns)>>
            ELSE sampled
        label_mapped ==
            IF label_transforms # NoneV
            THEN text_mapped \o <<MapStage(label_transforms, <<dataset_config.input_columns[2]>>)>>
            ELSE text_mapped
        ds == BatchThenRepeat(label_mapped, dataset_config)
    IN  [exc |-> NoneV, dataset |-> ds,
         log |-> built \o [i \in 1..(Len(ds) - 1) |-> Ev(ds[i + 1].op, <<ds[i + 1].arg>>)]]

\* opt.data_url.startswith == "s3://": the bound method compared with a str
StartswithIsPrefix(data_url) == PyObj("builtin_function_or_method") = PyStr(<<"s3://">>)

\* '/cache/Data/'
CacheUrl == <<"/cache/Data/">>

\* build_dataset(opt, rank_id, device_num)
BuildDataset(opt, rank_id, device_num) ==
    LET download == StartswithIsPrefix(opt.data_url)
        cache_url == IF download THEN CacheUrl ELSE opt.data_url.v
        created == Stage("create_dataset",
                         Join(cache_url) \o " batch=" \o ToString(opt.global_batch_size)
                             \o " device_num=" \o ToString(device_num)
                             \o " rank=" \o ToString(rank_id))
    IN  [exc |-> NoneV, dataset |-> <<created>>,
         log |-> (IF download THEN <<Ev("download_data", opt.data_url.v)>> ELSE <<>>)
                    \o <<Ev("create_dataset", cache_url)>>]

\* TranslationDataset (mindformers/dataset/translation_dataset.py).  A path is
\* held as its parts, the suffixes apart; a key the loader config does not hold
\* is held as <<>>.

\* os.walk(data_dir): the files of the directories there are
Walk ==
    [d \in {<<"wmt16">>, <<"empty">>} |->
        IF d = <<"wmt16">>
        THEN <<<<"train", ".mindrecord", ".db">>, <<"train", ".mindrecord">>>>
        ELSE <<>>]

\* file.endswith("db")
EndswithDb(file) == file[Len(file)] = ".db"

\* the files of a directory that do not end in db, each joined to the directory
NotDb(data_dir, f) ==
    LET keep == SelectSeq(f, LAMBDA file : ~EndswithDb(file))
    IN  [i \in DOMAIN keep |-> data_dir \o <<"/">> \o keep[i]]

\* _tokenizer_map: pad_max_function mapped on the source and target columns
TokenizerMap(ds, tokenizer_config) ==
    ds \o <<MapStage("pad_max_function " \o tokenizer_config, <<"source", "target">>)>>

\* _process_raw_text_data: the loader of the configured type on dataset_dir,
\* sharded, then the tokenizer map
ProcessRawTextData(dataset_config, env) ==
    LET rank_id == ParseInt(Getenv(env, "RANK_ID", "0"))
        device_num == ParseInt(Getenv(env, "RANK_SIZE", "1"))
        data_loader == dataset_config.data_loader
        called == <<Ev("_process_raw_text_data", <<>>)>>
    IN  IF data_loader.dataset_dir = <<>>
        THEN [exc |-> "KeyError", dataset |-> <<>>, log |-> called]
        ELSE
        LET loader == Stage("build_dataset_loader",
                            data_loader.type \o " dataset_dir=" \o Join(data_loader.dataset_dir)
                                \o " num_shards=" \o ToString(device_num)
                                \o " shard_id=" \o ToString(rank_id))
        IN  [exc |-> NoneV,
             dataset |-> TokenizerMap(<<loader>>, dataset_config.tokenizer),
             log |-> called \o <<Ev("build_dataset_loader", <<data_loader.type>>),
                                 Ev("_tokenizer_map", <<dataset_config.tokenizer>>)>>]

\* _process_mindrecord_data: the files under dataset_dir that do not end in db,
\* or dataset_files when no dataset_dir is given; the loader reads the first
ProcessMindrecordData(dataset_config, env) ==
    LET rank_id == ParseInt(Getenv(env, "RANK_ID", "0"))
        device_num == ParseInt(Getenv(env, "RANK_SIZE", "1"))
        data_loader == dataset_config.data_loader
        data_dir == data_loader.dataset_dir
        called == <<Ev("_process_mindrecord_data", <<>>)>>
        raised(e) == [exc |-> e, dataset |-> <<>>, log |-> called]
        dataset_files ==
            IF data_dir # <<>>
            THEN IF data_dir \in DOMAIN Walk THEN NotDb(data_dir, Walk[data_dir])
                 ELSE IF ~EndswithDb(data_dir) THEN <<data_dir>> ELSE <<>>
            ELSE data_loader.dataset_files
    IN  IF data_dir = <<>> /\ data_loader.dataset_files = <<>> THEN raised("TypeError")
        ELSE IF data_dir = <<>> THEN raised("KeyError")
        ELSE IF dataset_files = <<>> THEN raised("IndexError")
        ELSE
        LET loader == Stage("build_dataset_loader",
                            data_loader.type \o " dataset_files=" \o Join(dataset_files[1])
                                \o " num_shards=" \o ToString(device_num)
                                \o " shard_id=" \o ToString(rank_id)
                                \o " columns_list=" \o Join(dataset_config.input_columns))
        IN  [exc |-> NoneV, dataset |-> <<loader>>,
             log |-> called \o <<Ev("build_dataset_loader", <<data_loader.type>>)>>]

\* one TypeCast(int32) map on the first column only
TypeCastFirst(ds, input_columns) ==
    ds \o <<MapStage("TypeCast(int32)", <<input_columns[1]>>)>>

\* for input_arg in input_columns: dataset.map(TypeCast(int32), input_arg)
TypeCastEach(ds, input_columns) ==
    ds \o [i \in DOMAIN input_columns |-> MapStage("TypeCast(int32)", <<input_columns[i]>>)]

\* TranslationDataset(dataset_config) under the environment env
TranslationDatasetNew(dataset_config, env) ==
    LET source == IF dataset_config.data_loader.type # "MindDataset"
                  THEN ProcessRawTextData(dataset_config, env)
                  ELSE ProcessMindrecordData(dataset_config, env)
    IN  IF source.exc # NoneV THEN source
        ELSE
        LET ds == TypeCastEach(BatchThenRepeat(source.dataset, dataset_config),
                               dataset_config.input_columns)
            applied == SubSeq(ds, Len(source.dataset) + 1, Len(ds))
        IN  [exc |-> NoneV, dataset |-> ds,
             log |-> source.log \o [i \in DOMAIN applied |->
                                        Ev(applied[i].op, <<applied[i].arg>>)]]

\* the translation configs: a raw-text or a mindrecord loader; dataset_dir a
\* directory with files, an empty directory, a file, a db file, or not given;
\* dataset_files given or not
TranslationConfigs ==
    [data_loader : [type : {"WMT16DataLoader", "MindDataset"},
                    dataset_dir : {<<>>, <<"wmt16">>, <<"empty">>,
                                   <<"train", ".mindrecord">>,
                                   <<"train", ".mindrecord", ".db">>},
                    dataset_files : {<<>>, <<<<"a", ".mindrecord">>>>}],
     tokenizer : {"t5_small"},
     input_columns : {<<"input_ids", "attention_mask", "labels">>, <<"input_ids", "labels">>},
     batch_size : {16}, repeat : {1, 2}]

\* the dataset configs: each optional module configured or not
DatasetConfigs ==
    [data_loader : {"CONLLDataLoader"}, tokenizer : {"BertTokenizer"},
     text_transforms : {NoneV, "TokenizeWithLabel"},
     label_transforms : {NoneV, "LabelPadding"},
     sampler : {NoneV, "RandomSampler"},
     input_columns : {<<"text", "label_id">>},
     batch_size : {16, 32}, repeat : {1, 2}]

\* RANK_ID and RANK_SIZE unset, or exported by the launcher
Environments ==
    {EmptyFcn, [RANK_ID |-> "1", RANK_SIZE |-> "2"], [RANK_SIZE |-> "2"]}

Opts ==
    [data_url : {PyStr(<<"s3://", "bucket/wiki">>), PyStr(<<"/home/", "wiki">>)},
     global_batch_size : {4, 8}]

DatasetInit ==
    /\ dataset = <<>>
    /\ TrainerIdle /\ ConfigIdle
    /\ log = <<>> /\ exc = NoneV /\ call = NoCall /\ ncalls = 0

\* a factory's result becomes the state
Returned(r, c) ==
    /\ dataset' = r.dataset /\ log' = r.log /\ exc' = r.exc
    /\ call' = c /\ ncalls' = ncalls + 1
    /\ UNCHANGED <<trainerVars, configVars>>

TokenClassificationDatasetCall ==
    /\ ncalls < MaxCalls
    /\ \E dataset_config \in DatasetConfigs, env \in Environments :
        Returned(TokenClassificationDatasetNew(dataset_config, env),
                 [op |-> "TokenClassificationDataset",
                  args |-> [dataset_config |-> dataset_config, env |-> env]])

BuildDatasetCall ==
    /\ ncalls < MaxCalls
    /\ \E opt \in Opts, rank_id \in {0, 1}, device_num \in {1, 2} :
        Returned(BuildDataset(opt, rank_id, device_num),
                 [op |-> "build_dataset",
                  args |-> [opt |-> opt, rank_id |-> rank_id, device_num |-> device_num]])

TranslationDatasetCall ==
    /\ ncalls < MaxCalls
    /\ \E dataset_config \in TranslationConfigs, env \in Environments :
        Returned(TranslationDatasetNew(dataset_config, env),
                 [op |-> "TranslationDataset",
                  args |-> [dataset_config |-> dataset_config, env |-> env]])

DataNext == TokenClassificationDatasetCall \/ BuildDatasetCall \/ TranslationDatasetCall

SpecData == DatasetInit /\ [][DataNext]_vars

\* the operations of the stages of a dataset, in order
StageOps(ds) == [i \in DOMAIN ds |-> ds[i].op]

\* the stages of ds after the loader and before batch
Middle(ds) == SubSeq(ds, 2, Len(ds) - 2)

\* C6: TokenClassificationDataset assembles its pipeline in a fixed order: the
\* sharded data loader, then the sampler (only if one is configured), then the
\* text-transform map (only if configured), then the label-transform map (only if
\* configured), then batch, then repeat; batch and repeat are each applied exactly
\* once and batch precedes repeat.
C6_PipelineOrder ==
    call.op = "TokenClassificationDataset" =>
        LET c == call.args.dataset_config
            optional ==
                (IF c.sampler # NoneV THEN <<Stage("use_sampler", c.sampler)>> ELSE <<>>)
                \o (IF c.text_transforms # NoneV
                    THEN <<MapStage(c.text_transforms, c.input_columns)>> ELSE <<>>)
                \o (IF c.label_transforms # NoneV
                    THEN <<MapStage(c.label_transforms, <<c.input_columns[2]>>)>> ELSE <<>>)
        IN  /\ exc = NoneV
            /\ Len(dataset) >= 3
            /\ dataset[1].op = "build_dataset_loader"
            /\ Middle(dataset) = optional
            /\ dataset[Len(dataset) - 1].op = "batch"
            /\ dataset[Len(dataset)].op = "repeat"
            /\ Cardinality({i \in DOMAIN dataset : dataset[i].op = "batch"}) = 1
            /\ Cardinality({i \in DOMAIN dataset : dataset[i].op = "repeat"}) = 1
            /\ Before(log, "build_dataset_loader", "use_sampler")
            /\ Before(log, "use_sampler", "map")
            /\ Before(log, "map", "batch")
            /\ Before(log, "batch", "repeat")

\* a pipeline with every optional stage, on a second shard
C6_Witness ==
    /\ call.op = "TokenClassificationDataset"
    /\ StageOps(dataset) =
            <<"build_dataset_loader", "use_sampler", "map", "map", "batch", "repeat">>
    /\ dataset[3].arg = "TokenizeWithLabel" /\ dataset[4].arg = "LabelPadding"
    /\ dataset[1].arg = "CONLLDataLoader num_shards=2 shard_id=1"

\* a pipeline with no optional stage
C6_BarePipeline ==
    /\ call.op = "TokenClassificationDataset"
    /\ StageOps(dataset) = <<"build_dataset_loader", "batch", "repeat">>

\* C9: when opt.data_url begins with 's3://' the data is copied from the cloud to
\* '/cache/Data/' (download_data is called) and the dataset is created from
\* '/cache/Data/'; otherwise no download happens and the dataset is created from
\* opt.data_url.
C9_DownloadsFromObs ==
    call.op = "build_dataset" =>
        LET data_url == call.args.opt.data_url.v
        IN  /\ exc = NoneV
            /\ Count(log, "create_dataset") = 1
            /\ IF StartsWith(data_url, "s3://")
               THEN /\ Count(log, "download_data") = 1
                    /\ Before(log, "download_data", "create_dataset")
                    /\ \A i \in DOMAIN log : log[i].op = "create_dataset" => log[i].arg = CacheUrl
               ELSE /\ ~Has(log, "download_data")
                    /\ \A i \in DOMAIN log : log[i].op = "create_dataset" => log[i].arg = data_url

\* C9, what does hold: whatever opt.data_url is, no download happens and the
\* dataset is created from opt.data_url.
C9_NeverDownloads ==
    call.op = "build_dataset" =>
        /\ ~Has(log, "download_data")
        /\ log = <<Ev("create_dataset", call.args.opt.data_url.v)>>

-----------------------------------------------------------------------------
(* ImageClassificationTrainer.predict                                        *)
(* (mindformers/trainer/image_classification/image_classification.py).       *)

\* every value passes for input data
AnyInputData(input_data) == TRUE

\* isinstance(input_data, (Tensor, np.ndarray, Image, str, list))
IsInputData(input_data) == IsInstance(input_data, {"Tensor", "ndarray", "Image", "str", "list"})

\* the input data predict works on: the argument, or config.input_data when the
\* argument is None
PredictInputData(task_config, input_data) ==
    IF input_data = PyNone THEN task_config.input_data ELSE input_data

\* ImageClassificationTrainer.predict(config, input_data, network, image_processor):
\* the calls it makes, in order, and the exception it raises
ImageClassificationPredict(task_config, input_data, network, image_processor) ==
    LET data == PredictInputData(task_config, input_data)
        configured == <<Ev("set_config", <<>>)>>
        loaded_images ==
            IF data.type \in {"str", "list"} THEN <<Ev("load_image", data.v)>> ELSE <<>>
        net == IF network = PyNone THEN <<Ev("create_network", <<>>)>> ELSE <<>>
        processor ==
            IF image_processor = PyNone THEN <<Ev("create_image_processor", <<>>)>> ELSE <<>>
    IN  IF ~IsInputData(data) THEN [exc |-> "ValueError", log |-> configured]
        ELSE [exc |-> NoneV,
              log |-> configured \o loaded_images \o net \o <<Ev("count_params", <<>>)>>
                        \o processor \o <<Ev("pipeline", <<"image_classification">>),
                                          Ev("pipeline_task", <<>>)>>]

\* the values input data is given as: each accepted type, None, and two others
PredictInputs ==
    {PyNone, PyObj("Tensor"), PyObj("ndarray"), PyObj("Image"), PyStr(<<"cat", ".png">>),
     PyObj("list"), PyInt("5"), PyObj("dict")}

PredictArgs ==
    [task_config : [input_data : PredictInputs], input_data : PredictInputs,
     network : Objects("BaseModel"), image_processor : Objects("BaseImageProcessor")]

TaskInit ==
    /\ TrainerIdle /\ ConfigIdle /\ DatasetIdle
    /\ log = <<>> /\ exc = NoneV /\ call = NoCall /\ ncalls = 0

\* ImageClassificationTrainer().predict(**a)
ImageClassificationPredictCall ==
    /\ ncalls < MaxCalls
    /\ \E a \in PredictArgs :
        LET r == ImageClassificationPredict(a.task_config, a.input_data, a.network,
                                            a.image_processor)
        IN  /\ log' = r.log /\ exc' = r.exc
            /\ call' = [op |-> "ImageClassificationTrainer.predict", args |-> a]
    /\ ncalls' = ncalls + 1
    /\ UNCHANGED <<trainerVars, configVars, dataset>>

SpecTask == TaskInit /\ [][ImageClassificationPredictCall]_vars

\* C11: ImageClassificationTrainer.predict raises ValueError when the input data
\* (the argument, or config.input_data when the argument is None) is not a Tensor,
\* numpy array, PIL Image, str or list, and it does so before any network or image
\* processor is created and before the pipeline is run.
C11_BadInputDataRaisesFirst ==
    call.op = "ImageClassificationTrainer.predict" =>
        LET a == call.args
            data == IF a.input_data = PyNone THEN a.task_config.input_data ELSE a.input_data
        IN  data.type \notin {"Tensor", "ndarray", "Image", "str", "list"} =>
                /\ exc = "ValueError"
                /\ ~Has(log, "create_network") /\ ~Has(log, "create_image_processor")
                /\ ~Has(log, "pipeline") /\ ~Has(log, "pipeline_task")
                /\ ~Has(log, "load_image") /\ ~Has(log, "count_params")

\* no argument and a config whose input_data is a dict, with neither a network nor
\* an image processor given: the call raised and created nothing
C11_Witness ==
    /\ call.op = "ImageClassificationTrainer.predict"
    /\ call.args.input_data = PyNone
    /\ call.args.task_config.input_data = PyObj("dict")
    /\ call.args.network = PyNone /\ call.args.image_processor = PyNone
    /\ exc = "ValueError" /\ log = <<Ev("set_config", <<>>)>>

-----------------------------------------------------------------------------
(* Trainer.load_checkpoint by the type of its argument, as train calls it. *)

\* the argument train hands to load_checkpoint in the step just taken
LoadArgument == IF call'.args.checkpoint = PyFalse THEN PyNone ELSE call'.args.checkpoint

\* the step loaded nothing: no file was read and no parameters changed hands
LoadedNothing ==
    /\ ~Has(log', "load_checkpoint") /\ ~Has(log', "load_param_into_net")
    /\ netParams' = netParams /\ optParams' = optParams

\* what a train step that reached load_checkpoint did, by the type of the argument;
\* with targetsHeld the two loading cases are asked only of a Trainer that holds a
\* model and an optimizer at the load
LoadCheckpointByType(targetsHeld) ==
    LET arg == LoadArgument
        asked == ~targetsHeld \/ (self'.model # NoneV /\ self'.optimizers # NoneV)
    IN  /\ arg = PyNone => LoadedNothing /\ exc' = NoneV
        /\ (arg.type = "bool" /\ LatestCheckpoints # {} /\ asked) =>
                /\ exc' = NoneV
                /\ netParams'.file \in LatestCheckpoints
                /\ optParams'.file = netParams'.file
        /\ (arg.type = "str" /\ ~PathExists(arg.v)) =>
                LoadedNothing /\ exc' = "AssertionError"
        /\ (arg.type = "str" /\ PathExists(arg.v) /\ EndsWith(arg.v, ".ckpt") /\ asked) =>
                /\ exc' = NoneV
                /\ netParams'.file = arg.v /\ optParams'.file = arg.v
        /\ arg.type \notin {"NoneType", "bool", "str"} =>
                LoadedNothing /\ exc' = "KeyError"

\* C12 (as stated): load_checkpoint accepts only a string checkpoint path or a
\* bool: None loads nothing; a bool loads the last checkpoint; a str must be an
\* existing path (otherwise AssertionError) and is loaded; a value of any other
\* type raises KeyError and loads no parameters into the model or the optimizer.
C12_LoadCheckpointByType ==
    [][(Ran({"train"}) /\ Has(log', "self.load_checkpoint")) =>
            LoadCheckpointByType(FALSE)]_vars

\* C12, where it holds: the same, the two loading cases asked only of a Trainer
\* that holds a model and an optimizer when load_checkpoint is called.
C12_LoadCheckpointByTypeIntoHeld ==
    [][(Ran({"train"}) /\ Has(log', "self.load_checkpoint")) =>
            LoadCheckpointByType(TRUE)]_vars

\* each case has happened: here a path that exists was loaded into both
C12_PathLoaded ==
    /\ call.op = "train" /\ call.args.checkpoint = PyStr(<<"best", ".ckpt">>)
    /\ exc = NoneV
    /\ netParams.file = <<"best", ".ckpt">> /\ optParams.file = <<"best", ".ckpt">>

\* a value that is neither str nor bool reached load_checkpoint and raised
C12_OtherTypeRaised ==
    /\ call.op = "train" /\ call.args.checkpoint = PyInt("1")
    /\ Has(log, "self.load_checkpoint") /\ exc = "KeyError"
    /\ netParams = NoParams /\ optParams = NoParams

-----------------------------------------------------------------------------
(* Trainer.__init__: the arguments it rejects. *)

\* the named model is one the task has a default config for
ModelOfTask(a) ==
    a.model.type = "str" =>
        /\ a.task_name.type = "str"
        /\ <<Join(a.task_name.v), Join(a.model.v)>> \in
                {<<"image_classification", "vit_base_p16">>, <<"translation", "t5_small">>}

\* what __init__ did with the arguments of the last call; with ofTask the dataset
\* paths are asked about only when a named model is one of the task's models
InvalidArgumentsRejected(ofTask) ==
    LET a == call.args
        rejected == exc = "AssertionError" /\ self = NoTrainer
        isYaml(path) == path[Len(path)] \in {".yaml", ".yml"}
        asked == ~ofTask \/ ModelOfTask(a)
    IN  /\ (a.task_name.type # "str"
                \/ Join(a.task_name.v) \notin {"general", "image_classification", "translation"})
                => rejected
        /\ (a.model.type = "str" /\ Join(a.model.v) \notin {"vit_base_p16", "t5_small"})
                => rejected
        /\ (a.config.type = "str" /\ (a.config.v \notin ExistingPaths \/ ~isYaml(a.config.v)))
                => rejected
        /\ (a.train_dataset.type = "str" /\ a.train_dataset.v \notin ExistingPaths /\ asked)
                => rejected
        /\ (a.eval_dataset.type = "str" /\ a.eval_dataset.v \notin ExistingPaths /\ asked)
                => rejected
        /\ exc = NoneV =>
                /\ a.model.type = "str" =>
                        self.model_name = Join(a.model.v) /\ self.model = NoneV
                /\ a.model.type # "str" => self.model_name = "common"

\* C13 (as stated): Trainer.__init__ rejects invalid arguments with an
\* AssertionError: a task_name not among the supported tasks; a string model not
\* among the supported model names; a string config that is not an existing path or
\* does not end in .yaml/.yml; a string train_dataset or eval_dataset that is not an
\* existing path.  A valid string model sets model_name to it and leaves self.model
\* None; any non-string model gives model_name 'common'.
C13_InvalidArgumentsRejected ==
    call.op = "__init__" => InvalidArgumentsRejected(FALSE)

\* C13, where it holds: the same, a missing dataset path being asked about only
\* when the model, if named, is one the task has a default config for.
C13_InvalidArgumentsRejectedOfTask ==
    call.op = "__init__" => InvalidArgumentsRejected(TRUE)

\* a missing eval_dataset path met an AttributeError, not an AssertionError
C13_AttributeErrorFirst ==
    /\ call.op = "__init__" /\ exc = "AttributeError"
    /\ call.args.task_name = PyStr(<<"general">>)
    /\ call.args.model = PyStr(<<"vit_base_p16">>)
    /\ call.args.train_dataset = PyStr(<<"data">>)
    /\ call.args.eval_dataset = PyStr(<<"no">>)

\* a config path that exists but is no yaml file was rejected, the task and the
\* model being valid
C13_Witness ==
    /\ call.op = "__init__" /\ exc = "AssertionError"
    /\ call.args.config.type = "str" /\ call.args.config.v = <<"run", ".txt">>
    /\ call.args.task_name = PyStr(<<"image_classification">>)
    /\ call.args.model = PyStr(<<"vit_base_p16">>)

\* a Trainer was constructed from a supported model name
C13_NamedModel ==
    /\ call.op = "__init__" /\ exc = NoneV
    /\ call.args.model = PyStr(<<"vit_base_p16">>)
    /\ self.model_name = "vit_base_p16" /\ self.model = NoneV

\* a dataset path that does not exist was rejected, all else being valid
C13_MissingDataset ==
    /\ call.op = "__init__" /\ exc = "AssertionError"
    /\ call.args.eval_dataset = PyStr(<<"no">>)
    /\ call.args.train_dataset = PyStr(<<"data">>)
    /\ call.args.config = NoConfigArg
    /\ call.args.task_name = PyStr(<<"general">>) /\ call.args.model = PyNone

-----------------------------------------------------------------------------
(* What save_pretrained leaves of the in-memory config. *)

\* C14 (as stated): save_pretrained leaves the in-memory config as it was before
\* the call: the type entry added for serialization is removed again from the
\* config and from its directly nested configs, and every other entry the config
\* held before the call is still present with the same value.
C14_SaveLeavesConfig ==
    [][Ran({"save_pretrained"}) =>
        IF exc' # NoneV THEN cfg' = cfg
        ELSE /\ "type" \notin DOMAIN cfg'.d
             /\ \A k \in DOMAIN cfg'.d :
                    IsBaseConfig(cfg'.d[k]) => "type" \notin DOMAIN cfg'.d[k].sub
             /\ \A k \in (DOMAIN cfg.d) \ {"type"} :
                    k \in DOMAIN cfg'.d /\ cfg'.d[k] = cfg.d[k]]_vars

\* C14, where it holds: a save that raises leaves the config alone; a save that
\* writes removes type from the config and its directly nested configs, adds no
\* entry, and keeps each str, int, float and bool entry other than model_name
\* with its value.
C14_SaveKeepsScalars ==
    [][Ran({"save_pretrained"}) =>
        IF exc' # NoneV THEN cfg' = cfg
        ELSE /\ "type" \notin DOMAIN cfg'.d
             /\ \A k \in DOMAIN cfg'.d :
                    IsBaseConfig(cfg'.d[k]) => "type" \notin DOMAIN cfg'.d[k].sub
             /\ DOMAIN cfg'.d \subseteq DOMAIN cfg.d
             /\ \A k \in (DOMAIN cfg.d) \ {"type", "model_name"} :
                    IsScalar(cfg.d[k]) => k \in DOMAIN cfg'.d /\ cfg'.d[k] = cfg.d[k]]_vars

\* a GPT2Config was saved and no longer holds the compute_dtype it held
C14_EntryLost ==
    /\ call.op = "save_pretrained" /\ exc = NoneV /\ cfg.cls = "GPT2Config"
    /\ "compute_dtype" \notin DOMAIN cfg.d
    /\ \E p \in DOMAIN saved : "compute_dtype" \in DOMAIN saved[p].d

-----------------------------------------------------------------------------
(* TranslationDataset: the source and what is applied to it. *)

C15_Mindrecord ==
    /\ call.op = "TranslationDataset" /\ exc = NoneV
    /\ StageOps(dataset) = <<"build_dataset_loader", "batch", "repeat", "map", "map">>
    /\ dataset[1].arg =
        "MindDataset dataset_files=wmt16/train.mindrecord num_shards=1 shard_id=0 columns_list=input_idslabels"

\* a mindrecord directory without a file to read: no dataset is returned
C15_NoFile ==
    /\ call.op = "TranslationDataset" /\ exc = "IndexError" /\ dataset = <<>>

-----------------------------------------------------------------------------
(* One Trainer through train, evaluate and predict calls in any order. *)

\* Trainers with each component supplied by the user or not (the two datasets
\* together; the tokenizer, the feature extractor and the callbacks together), in
\* a world whose checkpoint directory holds two checkpoints
LifeArgs ==
    {[config |-> NoConfigArg,
      task_name |-> PyStr(<<"image_classification">>),
      model |-> model, train_dataset |-> datasets[1], eval_dataset |-> datasets[2],
      tokenizer |-> others[1], feature_extractor |-> others[2], callbacks |-> others[3],
      optimizers |-> optimizers, wrapper |-> wrapper,
      rank_id |-> "0"] :
        model \in Objects("BaseModel"),
        datasets \in {<<PyNone, PyNone>>, <<PyObj("BaseDataset"), PyObj("BaseDataset")>>},
        others \in {<<PyNone, PyNone, PyNone>>,
                    <<PyObj("BaseTokenizer"), PyObj("BaseFeatureExtractor"), PyObj("Callback")>>},
        optimizers \in Objects("Optimizer"), wrapper \in Objects("TrainOneStepCell")}

LifeInit ==
    /\ Constructed(LifeArgs)
    /\ ckptDirs = DirWorld(Dir({File("a", ".ckpt", 2), File("b", ".ckpt", 1)}))

LifeNext == TrainCall \/ EvaluateCall \/ PredictCall

SpecLife == LifeInit /\ [][LifeNext]_vars

\* the components a Trainer holds
Components ==
    {"model", "train_dataset", "eval_dataset", "optimizers", "wrapper", "callbacks",
     "tokenizer", "feature_extractor"}

\* the builder of each component
Builder(field) ==
    CASE field = "model" -> "build_model"
      [] field \in {"train_dataset", "eval_dataset"} -> "build_dataset"
      [] field = "optimizers" -> "build_optim"
      [] field = "wrapper" -> "build_wrapper"
      [] field = "callbacks" -> "build_callback"
      [] field = "tokenizer" -> "build_tokenizer"
      [] field = "feature_extractor" -> "build_feature_extractor"

\* how many times the handler that just ran built the component
Builds(l, field) ==
    Cardinality({i \in DOMAIN l : l[i].op = Builder(field) /\ l[i].arg = <<field>>})

\* C16: across any sequence of train, evaluate and predict calls on one Trainer,
\* each component is built from the config at most once, and a component supplied
\* by the user to __init__ is never rebuilt or replaced: a call builds a component
\* only while the Trainer holds none, at most once, and then holds the one it
\* built; a component held is still the same one after the call.
C16_BuiltAtMostOnce ==
    [][Ran({"train", "evaluate", "predict"}) =>
        \A field \in Components :
            /\ Builds(log', field) <= 1
            /\ Builds(log', field) = 1 => self[field] = NoneV /\ self'[field] = "built"
            /\ self[field] # NoneV => self'[field] = self[field] /\ Builds(log', field) = 0
            /\ Builds(log', field) = 0 => self'[field] = self[field]]_vars

\* a model that evaluate built was used by a later train and predict as it was
C16_Witness ==
    /\ ncalls >= 2 /\ call.op \in {"train", "predict"} /\ exc = NoneV
    /\ self.model = "built" /\ Builds(log, "model") = 0
    /\ self.callbacks = "built" /\ Builds(log, "callbacks") = 0

\* a Trainer given its model by the user still holds it after two calls
C16_UserModelKept ==
    /\ ncalls >= 2 /\ self.model = "user" /\ self.optimizers = "built"

-----------------------------------------------------------------------------
(* What the parameters of a checkpoint are loaded into during train. *)

\* train has just read a checkpoint file to load
TrainLoaded == call.op = "train" /\ Has(log, "load_checkpoint")

\* C17 (as stated): in Trainer.train, for every combination of user-supplied
\* model, optimizers and wrapper, whenever a checkpoint is loaded
\* (resume_from_checkpoint is True or a path) the network and the optimizer that
\* receive the parameters are objects, not None.
C17_LoadTargetsHeld ==
    TrainLoaded => self.model # NoneV /\ self.optimizers # NoneV

\* C17, where it holds: without a wrapper supplied by the user train has built or
\* been given both before it loads.
C17_LoadTargetsHeldWithoutUserWrapper ==
    (TrainLoaded /\ self.wrapper # "user") => self.model # NoneV /\ self.optimizers # NoneV

\* under a user-supplied wrapper the file was read and the network to load was None
C17_LoadedIntoNone ==
    /\ TrainLoaded /\ self.wrapper = "user" /\ self.model = NoneV
    /\ exc = "FrameworkError" /\ netParams = NoParams

\* under a user-supplied wrapper the network was loaded and the optimizer was None
C17_OptimizerNone ==
    /\ TrainLoaded /\ self.wrapper = "user" /\ self.model = "user" /\ self.optimizers = NoneV
    /\ exc = "FrameworkError" /\ netParams # NoParams /\ optParams = NoParams

=============================================================================
